---- MODULE Spec2Model ----
(***************************************************************************)
(* Rewards redemption optimizer: the value calculator (calculator.py), the *)
(* award-cost model and the route constructor (route_optimizer.py) and the *)
(* flight-data source they consume (amadeus_client.py).                    *)
(*                                                                         *)
(* The program is single-threaded call-and-return: a state of the model is *)
(* the call in progress (op), its arguments (args) and what it returns     *)
(* (ret).  Python floats are modelled as exact rationals [n, d] in lowest  *)
(* terms; quantities the code only ever sets to whole numbers (miles,      *)
(* the flat fees, parsed durations) are integers.                          *)
(***************************************************************************)
EXTENDS Integers, Sequences, FiniteSets, TLC

VARIABLES op, args, ret, prev_direct, prev_recommend

vars == <<op, args, ret, prev_direct, prev_recommend>>

None == [none |-> TRUE]

\* F(v): the value v is computed once and F refers to it by name.
With(v, F(_)) == CHOOSE r \in {F(x) : x \in {v}} : TRUE

(***************************************************************************)
(* Exact arithmetic standing for Python's float arithmetic.                *)
(* A value with d = 0 stands for a raised ZeroDivisionError.               *)
(***************************************************************************)
Abs(x) == IF x < 0 THEN -x ELSE x

RECURSIVE GCD(_, _)
GCD(a, b) == IF b = 0 THEN a ELSE GCD(b, a % b)

ZeroDivisionError == [n |-> 0, d |-> 0]

Raised(x) == x.d = 0

Rat(num, den) ==
    IF den = 0 THEN ZeroDivisionError
    ELSE LET g == GCD(Abs(num), Abs(den))
             s == IF den < 0 THEN -1 ELSE 1
         IN  [n |-> (s * num) \div g, d |-> (s * den) \div g]

FromInt(i) == [n |-> i, d |-> 1]

RZero == FromInt(0)

RAdd(x, y) == IF Raised(x) \/ Raised(y) THEN ZeroDivisionError
              ELSE Rat(x.n * y.d + y.n * x.d, x.d * y.d)

RSub(x, y) == IF Raised(x) \/ Raised(y) THEN ZeroDivisionError
              ELSE Rat(x.n * y.d - y.n * x.d, x.d * y.d)

RMul(x, y) == IF Raised(x) \/ Raised(y) THEN ZeroDivisionError
              ELSE Rat(x.n * y.n, x.d * y.d)

RDiv(x, y) == IF Raised(x) \/ Raised(y) THEN ZeroDivisionError
              ELSE Rat(x.n * y.d, x.d * y.n)

RLt(x, y) == x.n * y.d < y.n * x.d

RLe(x, y) == x.n * y.d <= y.n * x.d

RGe(x, y) == RLe(y, x)

RGt(x, y) == RLt(y, x)

(***************************************************************************)
(* Bounds and input samples of the calculator.                             *)
(***************************************************************************)
MaxOptions == 3

MilesSamples == {-5000, 0, 1, 10000, 25000}

CashSamples == {FromInt(0), FromInt(100), FromInt(400), Rat(1, 2)}

FeeSamples == {FromInt(0), FromInt(50), FromInt(150)}

OptionTypes == {"flight", "hotel", "giftcard", "statement_credit"}

\* RedemptionOption objects handed to compare_redemptions (name and
\* description are carried along by reference only and are left out).
OptionSamples ==
    { [type |-> t, miles_cost |-> m, cash_equivalent |-> c.cash, taxes_fees |-> c.fees] :
        t \in OptionTypes, m \in {0, 10000, 25000},
        c \in { [cash |-> FromInt(100), fees |-> FromInt(0)],
                [cash |-> FromInt(400), fees |-> FromInt(150)] } }

SeqsUpTo(S, n) == UNION { [1..k -> S] : k \in 0..n }

(***************************************************************************)
(* calculator.py                                                           *)
(***************************************************************************)
minimum_value_threshold == Rat(1, 2)

\* RedemptionOption.net_cash_value
net_cash_value(o) == RSub(o.cash_equivalent, o.taxes_fees)

value_per_mile_unguarded(o) ==
    IF o.miles_cost < 0 THEN RZero
    ELSE RMul(RDiv(net_cash_value(o), FromInt(o.miles_cost)), FromInt(100))

\* RedemptionOption.value_per_mile
value_per_mile(o) ==
    IF o.miles_cost <= 0 THEN RZero
    ELSE RMul(RDiv(net_cash_value(o), FromInt(o.miles_cost)), FromInt(100))

calculate_flight_value_unscaled(miles_cost, cash_price, taxes_fees) ==
    LET net_value == RSub(cash_price, taxes_fees)
        vpm == IF miles_cost > 0
               THEN RDiv(net_value, FromInt(miles_cost))
               ELSE RZero
    IN  [type |-> "flight", miles_cost |-> miles_cost, cash_price |-> cash_price,
         taxes_fees |-> taxes_fees, net_value |-> net_value,
         value_per_mile |-> vpm,
         is_good_value |-> RGe(vpm, minimum_value_threshold),
         savings_vs_cash |-> net_value]

calculate_flight_value(miles_cost, cash_price, taxes_fees) ==
    LET net_value == RSub(cash_price, taxes_fees)
        vpm == IF miles_cost > 0
               THEN RMul(RDiv(net_value, FromInt(miles_cost)), FromInt(100))
               ELSE RZero
    IN  [type |-> "flight", miles_cost |-> miles_cost, cash_price |-> cash_price,
         taxes_fees |-> taxes_fees, net_value |-> net_value,
         value_per_mile |-> vpm,
         is_good_value |-> RGe(vpm, minimum_value_threshold),
         savings_vs_cash |-> net_value]

calculate_hotel_value(points_cost, cash_price, taxes_fees) ==
    LET net_value == RSub(cash_price, taxes_fees)
        vpp == IF points_cost > 0
               THEN RMul(RDiv(net_value, FromInt(points_cost)), FromInt(100))
               ELSE RZero
    IN  [type |-> "hotel", points_cost |-> points_cost, cash_price |-> cash_price,
         taxes_fees |-> taxes_fees, net_value |-> net_value,
         value_per_point |-> vpp,
         is_good_value |-> RGe(vpp, minimum_value_threshold),
         savings_vs_cash |-> net_value]

calculate_giftcard_value(points_cost, giftcard_value) ==
    LET vpp == IF points_cost > 0
               THEN RMul(RDiv(giftcard_value, FromInt(points_cost)), FromInt(100))
               ELSE RZero
    IN  [type |-> "giftcard", points_cost |-> points_cost,
         giftcard_value |-> giftcard_value,
         taxes_fees |-> RZero, net_value |-> giftcard_value,
         value_per_point |-> vpp,
         is_good_value |-> RGe(vpp, minimum_value_threshold),
         savings_vs_cash |-> giftcard_value]

\* list.sort(key=..., reverse=True) as the permutation it applies: position k
\* of the sorted list holds element perm[k] of the unsorted one.  The sort is
\* stable, also with reverse=True: equal keys keep their order.
RECURSIVE InsertUnstable(_, _, _)
InsertUnstable(sorted, i, keys) ==
    IF sorted = <<>> THEN <<i>>
    ELSE IF RLe(keys[Head(sorted)], keys[i]) THEN <<i>> \o sorted
    ELSE <<Head(sorted)>> \o InsertUnstable(Tail(sorted), i, keys)

RECURSIVE InsertDescending(_, _, _)
InsertDescending(sorted, i, keys) ==
    IF sorted = <<>> THEN <<i>>
    ELSE IF RLt(keys[Head(sorted)], keys[i]) THEN <<i>> \o sorted
    ELSE <<Head(sorted)>> \o InsertDescending(Tail(sorted), i, keys)

RECURSIVE SortPrefix(_, _)
SortPrefix(keys, k) ==
    IF k = 0 THEN <<>> ELSE InsertDescending(SortPrefix(keys, k - 1), k, keys)

sort_reverse(keys) == SortPrefix(keys, Len(keys))

Permute(seq, perm) == [k \in 1..Len(perm) |-> seq[perm[k]]]

\* calc_result.get('value_per_mile', calc_result.get('value_per_point', 0))
value_per_unit_of(calc_result) ==
    IF "value_per_mile" \in DOMAIN calc_result THEN calc_result.value_per_mile
    ELSE IF "value_per_point" \in DOMAIN calc_result THEN calc_result.value_per_point
    ELSE RZero

\* The loop of compare_redemptions from option i on; an entry's 'option' is a
\* reference to the caller's object, modelled as its position in the input.
RECURSIVE compare_loop(_, _)
compare_loop(redemption_options, i) ==
    IF i > Len(redemption_options) THEN <<>>
    ELSE LET option == redemption_options[i]
             rest == compare_loop(redemption_options, i + 1)
             entry(calc_result) ==
                 [option |-> i, calculation |-> calc_result,
                  value_per_unit |-> value_per_unit_of(calc_result)]
         IN  IF option.type = "flight"
             THEN <<entry(calculate_flight_value(option.miles_cost,
                        option.cash_equivalent, option.taxes_fees))>> \o rest
             ELSE IF option.type = "hotel"
             THEN <<entry(calculate_hotel_value(option.miles_cost,
                        option.cash_equivalent, option.taxes_fees))>> \o rest
             ELSE IF option.type = "giftcard"
             THEN <<entry(calculate_giftcard_value(option.miles_cost,
                        option.cash_equivalent))>> \o rest
             ELSE rest

compare_redemptions(redemption_options) ==
    LET comparisons == compare_loop(redemption_options, 1)
        keys == [k \in 1..Len(comparisons) |-> comparisons[k].value_per_unit]
    IN  Permute(comparisons, sort_reverse(keys))

(***************************************************************************)
(* The calls of the calculator.                                            *)
(***************************************************************************)
InitState ==
    /\ op = "init"
    /\ args = None
    /\ ret = None
    /\ prev_direct = None
    /\ prev_recommend = None

CallValuePerMile ==
    /\ op = "init"
    /\ \E m \in MilesSamples, c \in CashSamples, f \in FeeSamples :
            LET o == [type |-> "flight", miles_cost |-> m, cash_equivalent |-> c,
                      taxes_fees |-> f]
            IN  /\ op' = "value_per_mile"
                /\ args' = o
                /\ ret' = [net_cash_value |-> net_cash_value(o),
                           value_per_mile |-> value_per_mile(o)]
                /\ UNCHANGED <<prev_direct, prev_recommend>>

CallCalculateFlightValue ==
    /\ op = "init"
    /\ \E m \in MilesSamples, c \in CashSamples, f \in FeeSamples :
            /\ op' = "calculate_flight_value"
            /\ args' = [units_cost |-> m, cash_price |-> c, taxes_fees |-> f]
            /\ ret' = calculate_flight_value(m, c, f)
            /\ UNCHANGED <<prev_direct, prev_recommend>>

CallCalculateHotelValue ==
    /\ op = "init"
    /\ \E m \in MilesSamples, c \in CashSamples, f \in FeeSamples :
            /\ op' = "calculate_hotel_value"
            /\ args' = [units_cost |-> m, cash_price |-> c, taxes_fees |-> f]
            /\ ret' = calculate_hotel_value(m, c, f)
            /\ UNCHANGED <<prev_direct, prev_recommend>>

CallCalculateGiftcardValue ==
    /\ op = "init"
    /\ \E m \in MilesSamples, c \in CashSamples :
            /\ op' = "calculate_giftcard_value"
            /\ args' = [units_cost |-> m, cash_price |-> c, taxes_fees |-> RZero]
            /\ ret' = calculate_giftcard_value(m, c)
            /\ UNCHANGED <<prev_direct, prev_recommend>>

CallCompareRedemptions ==
    /\ op = "init"
    /\ \E options \in SeqsUpTo(OptionSamples, MaxOptions) :
            /\ op' = "compare_redemptions"
            /\ args' = options
            /\ ret' = compare_redemptions(options)
            /\ UNCHANGED <<prev_direct, prev_recommend>>

\* The call returns to the caller; the next call starts from scratch.  The
\* history variable prev_direct keeps what the last direct-route search
\* answered, and prev_recommend the request and the result of the last
\* recommendation made against the mock data source.
Return ==
    /\ op # "init"
    /\ op' = "init"
    /\ args' = None
    /\ ret' = None
    /\ prev_direct' = IF op = "find_direct_routes"
                      THEN [origin |-> args.origin, destination |-> args.destination,
                            total_miles |-> {ret[k].total_miles : k \in 1..Len(ret)}]
                      ELSE prev_direct
    /\ prev_recommend' = IF op = "generate_recommendations_on_mock"
                         THEN [request |-> args.request, result |-> ret.result]
                         ELSE prev_recommend

NextValue ==
    \/ Return
    \/ CallValuePerMile
    \/ CallCalculateFlightValue
    \/ CallCalculateHotelValue
    \/ CallCalculateGiftcardValue
    \/ CallCompareRedemptions

SpecValue == InitState /\ [][NextValue]_vars

(***************************************************************************)
(* Properties of the calculator.                                           *)
(***************************************************************************)
\* r is the rational num / den, stated on integers.
IsQuotient(r, num, den) == r.d > 0 /\ den # 0 /\ r.n * den = num * r.d

\* Numerator and denominator of cash - fees.
NetNum(cash, fees) == cash.n * fees.d - fees.n * cash.d

NetDen(cash, fees) == cash.d * fees.d

Max0(x) == IF x < 0 THEN 0 ELSE x

IsFlightOrHotelCall == op \in {"calculate_flight_value", "calculate_hotel_value"}

ReturnedValue ==
    IF op = "calculate_flight_value" THEN ret.value_per_mile ELSE ret.value_per_point

\* C1 as stated: for units_cost > 0 the flight/hotel value operation returns
\* max(0, cash_price - taxes_fees) / units_cost * 100, which is never negative.
C1_ClampedValue ==
    (IsFlightOrHotelCall /\ args.units_cost > 0) =>
        /\ IsQuotient(ReturnedValue,
                      Max0(NetNum(args.cash_price, args.taxes_fees)) * 100,
                      NetDen(args.cash_price, args.taxes_fees) * args.units_cost)
        /\ ReturnedValue.n >= 0

\* C1 amended: for units_cost > 0 the flight/hotel value operation returns
\* (cash_price - taxes_fees) / units_cost * 100 with no clamp at 0: the value
\* is negative exactly when taxes_fees exceeds cash_price.
C1_UnclampedValue ==
    (IsFlightOrHotelCall /\ args.units_cost > 0) =>
        /\ IsQuotient(ReturnedValue,
                      NetNum(args.cash_price, args.taxes_fees) * 100,
                      NetDen(args.cash_price, args.taxes_fees) * args.units_cost)
        /\ (ReturnedValue.n < 0 <=> RLt(args.cash_price, args.taxes_fees))

C1_Witness ==
    /\ IsFlightOrHotelCall
    /\ args.units_cost > 0
    /\ RLt(args.cash_price, args.taxes_fees)
    /\ ReturnedValue.n < 0

\* C2: a RedemptionOption with units_cost > 0 has value_per_unit =
\* (cash_equivalent - taxes_fees) / units_cost * 100, which is >= 0 whenever
\* cash_equivalent >= taxes_fees (25000 units, 400 cash, 50 fees: net 350 and
\* 1.4 cents); with units_cost <= 0 it is 0 and nothing is divided.  The
\* flight, hotel and gift-card operations return 0 for units_cost <= 0 too.
C2_OptionValue ==
    /\ op = "value_per_mile" =>
        /\ ~Raised(ret.value_per_mile)
        /\ args.miles_cost > 0 =>
            /\ IsQuotient(ret.value_per_mile,
                          NetNum(args.cash_equivalent, args.taxes_fees) * 100,
                          NetDen(args.cash_equivalent, args.taxes_fees) * args.miles_cost)
            /\ RGe(args.cash_equivalent, args.taxes_fees) => ret.value_per_mile.n >= 0
        /\ args.miles_cost <= 0 => ret.value_per_mile = [n |-> 0, d |-> 1]
        /\ ( /\ args.miles_cost = 25000
             /\ args.cash_equivalent = FromInt(400)
             /\ args.taxes_fees = FromInt(50) ) =>
                /\ ret.net_cash_value = FromInt(350)
                /\ ret.value_per_mile = [n |-> 7, d |-> 5]
    /\ ( /\ op \in {"calculate_flight_value", "calculate_hotel_value",
                    "calculate_giftcard_value"}
         /\ args.units_cost <= 0 ) =>
            value_per_unit_of(ret) = [n |-> 0, d |-> 1]

C2_Witness ==
    /\ op = "value_per_mile"
    /\ args.miles_cost = 0
    /\ ret.value_per_mile = [n |-> 0, d |-> 1]

IsCompareCall == op = "compare_redemptions"

\* C3: the output of compare() is ordered by non-increasing value_per_unit, and
\* entries of equal value_per_unit keep the relative order of their options in
\* the input list.
C3_SortedStable ==
    IsCompareCall =>
        \A i, j \in 1..Len(ret) :
            i < j =>
                /\ RGe(ret[i].value_per_unit, ret[j].value_per_unit)
                /\ ret[i].value_per_unit = ret[j].value_per_unit =>
                       ret[i].option < ret[j].option

C3_Witness ==
    /\ IsCompareCall
    /\ Len(ret) = 3
    /\ ret[1].value_per_unit = ret[2].value_per_unit
    /\ RGt(ret[2].value_per_unit, ret[3].value_per_unit)
    /\ ret[1].option = 2 /\ ret[2].option = 3 /\ ret[3].option = 1

\* C4: the output of compare() has exactly one entry per input option, for
\* options of type flight, hotel, giftcard or statement_credit.
C4_EveryOptionCompared ==
    IsCompareCall =>
        /\ Len(ret) = Len(args)
        /\ {ret[k].option : k \in 1..Len(ret)} = 1..Len(args)

(***************************************************************************)
(* route_optimizer.py: the award-cost model.                               *)
(***************************************************************************)
\* Airport codes of the model: five of the distance table and one unknown
\* to it.
Airports == {"JFK", "LAX", "ORD", "ATL", "DFW", "ZZZ"}

\* Distances at, just below and just above every zone boundary.
DistanceSamples ==
    {0, 499, 500, 501, 999, 1000, 1001, 1499, 1500, 1501, 1999, 2000, 2001,
     3999, 4000, 4001, 5999, 6000, 6001, 7999, 8000, 8001, 12000}

award_charts ==
    [domestic |-> [zone_1 |-> 7500, zone_2 |-> 12500, zone_3 |-> 20000,
                   zone_4 |-> 25000, zone_5 |-> 35000],
     international |-> [zone_1 |-> 30000, zone_2 |-> 40000, zone_3 |-> 50000,
                        zone_4 |-> 60000, zone_5 |-> 70000]]

distances ==
    (<<"JFK", "LAX">> :> 2475) @@ (<<"JFK", "ORD">> :> 740) @@
    (<<"JFK", "ATL">> :> 760) @@ (<<"JFK", "DFW">> :> 1389) @@
    (<<"LAX", "ORD">> :> 1744) @@ (<<"LAX", "ATL">> :> 1947) @@
    (<<"LAX", "DFW">> :> 1235) @@ (<<"ORD", "ATL">> :> 606) @@
    (<<"ORD", "DFW">> :> 802) @@ (<<"ATL", "DFW">> :> 731)

calculate_distance_forward_only(origin, destination) ==
    IF <<origin, destination>> \in DOMAIN distances
    THEN distances[<<origin, destination>>]
    ELSE 1000

\* RouteOptimizer._calculate_distance
calculate_distance(origin, destination) ==
    LET route == <<origin, destination>>
        reverse_route == <<destination, origin>>
    IN  IF route \in DOMAIN distances THEN distances[route]
        ELSE IF reverse_route \in DOMAIN distances THEN distances[reverse_route]
        ELSE 1000

zone_of_distance_exclusive(distance, is_international) ==
    IF is_international
    THEN LET chart == award_charts.international
         IN  IF distance < 2000 THEN chart.zone_1
             ELSE IF distance < 4000 THEN chart.zone_2
             ELSE IF distance < 6000 THEN chart.zone_3
             ELSE IF distance < 8000 THEN chart.zone_4
             ELSE chart.zone_5
    ELSE LET chart == award_charts.domestic
         IN  IF distance < 500 THEN chart.zone_1
             ELSE IF distance < 1000 THEN chart.zone_2
             ELSE IF distance < 1500 THEN chart.zone_3
             ELSE IF distance < 2000 THEN chart.zone_4
             ELSE chart.zone_5

\* The zone lookup of RouteOptimizer._get_award_cost, for a distance.
zone_of_distance(distance, is_international) ==
    IF is_international
    THEN LET chart == award_charts.international
         IN  IF distance < 2000 THEN chart.zone_1
             ELSE IF distance < 4000 THEN chart.zone_2
             ELSE IF distance < 6000 THEN chart.zone_3
             ELSE IF distance < 8000 THEN chart.zone_4
             ELSE chart.zone_5
    ELSE LET chart == award_charts.domestic
         IN  IF distance <= 500 THEN chart.zone_1
             ELSE IF distance <= 1000 THEN chart.zone_2
             ELSE IF distance <= 1500 THEN chart.zone_3
             ELSE IF distance <= 2000 THEN chart.zone_4
             ELSE chart.zone_5

\* RouteOptimizer._get_award_cost
get_award_cost(origin, destination, is_international) ==
    LET distance == calculate_distance(origin, destination)
    IN  zone_of_distance(distance, is_international)

CallCalculateDistance ==
    /\ op = "init"
    /\ \E o \in Airports, d \in Airports :
            /\ op' = "_calculate_distance"
            /\ args' = [origin |-> o, destination |-> d]
            /\ ret' = calculate_distance(o, d)
            /\ UNCHANGED <<prev_direct, prev_recommend>>

CallGetAwardCost ==
    /\ op = "init"
    /\ \E o \in Airports, d \in Airports, intl \in BOOLEAN :
            /\ op' = "_get_award_cost"
            /\ args' = [origin |-> o, destination |-> d, is_international |-> intl]
            /\ ret' = get_award_cost(o, d, intl)
            /\ UNCHANGED <<prev_direct, prev_recommend>>

\* The zone lookup on its own, for distances the ten-pair table does not hold.
CallZoneOfDistance ==
    /\ op = "init"
    /\ \E dist \in DistanceSamples, intl \in BOOLEAN :
            /\ op' = "zone_of_distance"
            /\ args' = [distance |-> dist, is_international |-> intl]
            /\ ret' = zone_of_distance(dist, intl)
            /\ UNCHANGED <<prev_direct, prev_recommend>>

NextCost ==
    \/ Return
    \/ CallCalculateDistance
    \/ CallGetAwardCost
    \/ CallZoneOfDistance

SpecCost == InitState /\ [][NextCost]_vars

\* C5: the award cost is symmetric: cost(A, B, intl) = cost(B, A, intl) for
\* every pair of airport codes, known or unknown to the distance table.
C5_CostSymmetric ==
    op = "_get_award_cost" =>
        ret = get_award_cost(args.destination, args.origin, args.is_international)

C5_Witness ==
    /\ op = "_get_award_cost"
    /\ args.origin = "LAX" /\ args.destination = "JFK"
    /\ ~args.is_international
    /\ ret = 35000

\* The zone price the claim gives for a distance.
ClaimedZonePrice(d, intl) ==
    IF intl
    THEN CASE d < 2000 -> 30000
           [] d >= 2000 /\ d < 4000 -> 40000
           [] d >= 4000 /\ d < 6000 -> 50000
           [] d >= 6000 /\ d < 8000 -> 60000
           [] d >= 8000 -> 70000
    ELSE CASE d <= 500 -> 7500
           [] d > 500 /\ d <= 1000 -> 12500
           [] d > 1000 /\ d <= 1500 -> 20000
           [] d > 1500 /\ d <= 2000 -> 25000
           [] d > 2000 -> 35000

InTable(a, b) == <<a, b>> \in DOMAIN distances \/ <<b, a>> \in DOMAIN distances

\* C6: cost() buckets the looked-up distance into one of five zones (domestic
\* <=500, <=1000, <=1500, <=2000, >2000; international <2000, <4000, <6000,
\* <8000, >=8000) with the prices of the tables; a pair in the distance table
\* in neither direction uses the distance 1000: 12500 domestic, 30000
\* international.
C6_ZonePrices ==
    /\ op = "zone_of_distance" =>
           ret = ClaimedZonePrice(args.distance, args.is_international)
    /\ op = "_get_award_cost" =>
        /\ ret = ClaimedZonePrice(calculate_distance(args.origin, args.destination),
                                  args.is_international)
        /\ ~InTable(args.origin, args.destination) =>
               ret = IF args.is_international THEN 30000 ELSE 12500
    /\ (op = "_calculate_distance" /\ ~InTable(args.origin, args.destination)) =>
           ret = 1000

C6_Witness ==
    /\ op = "zone_of_distance"
    /\ args.distance = 2000
    /\ ~args.is_international
    /\ ret = 25000

(***************************************************************************)
(* amadeus_client.py: the offers search_flights hands to the route         *)
(* constructor.  A FlightOffer keeps the fields the routes read (id,       *)
(* origin, destination, price, airline, duration, stops, segments); the    *)
(* travel date only appears inside strings no route reads and is left out. *)
(***************************************************************************)
MaxOffers == 2

MaxHubs == 2

Segment(dep, arr, carrier, number) ==
    [departure |-> dep, arrival |-> arr, carrierCode |-> carrier, number |-> number]

amadeus_distances ==
    (<<"JFK", "LAX">> :> 2475) @@ (<<"JFK", "ORD">> :> 740) @@
    (<<"JFK", "ATL">> :> 760) @@ (<<"JFK", "DFW">> :> 1389) @@
    (<<"LAX", "ORD">> :> 1744) @@ (<<"LAX", "ATL">> :> 1947) @@
    (<<"LAX", "DFW">> :> 1235) @@ (<<"ORD", "ATL">> :> 606) @@
    (<<"ORD", "DFW">> :> 802) @@ (<<"ATL", "DFW">> :> 731)

\* AmadeusClient._calculate_distance
amadeus_calculate_distance(origin, destination) ==
    LET route == <<origin, destination>>
        reverse_route == <<destination, origin>>
    IN  IF route \in DOMAIN amadeus_distances THEN amadeus_distances[route]
        ELSE IF reverse_route \in DOMAIN amadeus_distances
        THEN amadeus_distances[reverse_route]
        ELSE 1000

\* AmadeusClient._get_mock_flights
get_mock_flights(origin, destination) ==
    LET distance == amadeus_calculate_distance(origin, destination)
        base_price == RMul(FromInt(distance), Rat(15, 100))
        duration == "PT" \o ToString((distance \div 500) + 1) \o "H"
    IN  << [id |-> "mock_1", origin |-> origin, destination |-> destination,
            price |-> RMul(base_price, Rat(8, 10)), airline |-> "AA",
            duration |-> duration, stops |-> 0,
            segments |-> <<Segment(origin, destination, "AA", "123")>>],
           [id |-> "mock_2", origin |-> origin, destination |-> destination,
            price |-> RMul(base_price, Rat(15, 10)), airline |-> "DL",
            duration |-> duration, stops |-> 1,
            segments |-> <<Segment(origin, "ORD", "DL", "456"),
                           Segment("ORD", destination, "DL", "789")>>] >>

\* What a live offer looks like apart from its itinerary.
OfferLooks ==
    { [price |-> FromInt(100), airline |-> "AA", duration |-> "PT3H"],
      [price |-> FromInt(250), airline |-> "AA", duration |-> "PT3H"],
      [price |-> FromInt(100), airline |-> "DL", duration |-> "PT3H"],
      [price |-> FromInt(100), airline |-> "AA", duration |-> "PT2H30M"],
      [price |-> Rat(1999, 10), airline |-> "DL", duration |-> "PTH"] }

\* An offer as AmadeusClient._parse_flight_offers builds it from a live
\* itinerary of nsegs segments: stops is the number of segments less one and
\* the airline is the first segment's carrier.
LiveOffer(origin, destination, look, nsegs) ==
    [id |-> "1", origin |-> origin, destination |-> destination,
     price |-> look.price, airline |-> look.airline,
     duration |-> look.duration, stops |-> nsegs - 1,
     segments |-> IF nsegs = 1
                  THEN <<Segment(origin, destination, look.airline, "100")>>
                  ELSE <<Segment(origin, "DEN", look.airline, "100"),
                         Segment("DEN", destination, look.airline, "200")>>]

LiveOffers(origin, destination) ==
    { LiveOffer(origin, destination, look, nsegs) : look \in OfferLooks, nsegs \in {1, 2} }

\* The lists search_flights can return for origin -> destination: live offers,
\* or the mock pair when the API is unavailable or fails.
SearchResponses(origin, destination) ==
    SeqsUpTo(LiveOffers(origin, destination), MaxOffers)
        \cup {get_mock_flights(origin, destination)}

\* What the single-offer request for one leg of a layover returns: nothing,
\* live offers, or the mock pair.
LegKinds == {"none", "live", "mock"}

LegResponse(origin, destination, kind) ==
    CASE kind = "none" -> <<>>
      [] kind = "live" ->
            << LiveOffer(origin, destination,
                   [price |-> Rat(1999, 10), airline |-> "DL", duration |-> "PTH"], 2),
               LiveOffer(origin, destination,
                   [price |-> FromInt(100), airline |-> "AA", duration |-> "PT3H"], 1) >>
      [] kind = "mock" -> get_mock_flights(origin, destination)

(***************************************************************************)
(* route_optimizer.py: the route constructor.                              *)
(***************************************************************************)
RouteAirports == {"JFK", "LAX", "ZZZ"}

HubSamples == {"JFK", "ORD", "ATL"}

major_hubs == <<"ATL", "DFW", "ORD", "LAX", "JFK", "LHR", "CDG", "NRT", "HKG", "SIN">>

Digits == {"0", "1", "2", "3", "4", "5", "6", "7", "8", "9"}

DigitValue(c) ==
    CASE c = "0" -> 0 [] c = "1" -> 1 [] c = "2" -> 2 [] c = "3" -> 3 [] c = "4" -> 4
      [] c = "5" -> 5 [] c = "6" -> 6 [] c = "7" -> 7 [] c = "8" -> 8 [] c = "9" -> 9

CharAt(str, i) == SubSeq(str, i, i)

\* str.startswith(prefix)
StartsWith(str, prefix) ==
    Len(str) >= Len(prefix) /\ SubSeq(str, 1, Len(prefix)) = prefix

\* c in str
Contains(str, c) == \E i \in 1..Len(str) : CharAt(str, i) = c

\* str.split(c)[0]: what precedes the first c (all of str when there is none).
BeforeFirst(str, c) ==
    IF Contains(str, c)
    THEN LET first == CHOOSE i \in 1..Len(str) :
                          /\ CharAt(str, i) = c
                          /\ \A j \in 1..(i - 1) : CharAt(str, j) # c
         IN  SubSeq(str, 1, first - 1)
    ELSE str

RECURSIVE StripLeft(_)
StripLeft(str) ==
    IF Len(str) > 0 /\ Head(str) = " " THEN StripLeft(Tail(str)) ELSE str

RECURSIVE StripRight(_)
StripRight(str) ==
    IF Len(str) > 0 /\ CharAt(str, Len(str)) = " "
    THEN StripRight(SubSeq(str, 1, Len(str) - 1))
    ELSE str

RECURSIVE DigitsValue(_, _)
DigitsValue(str, acc) ==
    IF Len(str) = 0 THEN acc
    ELSE DigitsValue(Tail(str), acc * 10 + DigitValue(Head(str)))

\* int(str) for a decimal literal: surrounding blanks and one sign are
\* accepted; anything else raises ValueError.
ParseInt(str) ==
    LET t == StripRight(StripLeft(str))
        signed == Len(t) > 0 /\ Head(t) \in {"+", "-"}
        body == IF signed THEN Tail(t) ELSE t
        ok == Len(body) > 0 /\ \A i \in 1..Len(body) : CharAt(body, i) \in Digits
    IN  IF ok
        THEN [ok |-> TRUE,
              value |-> IF signed /\ Head(t) = "-"
                        THEN -DigitsValue(body, 0) ELSE DigitsValue(body, 0)]
        ELSE [ok |-> FALSE, value |-> 0]

\* RouteOptimizer._parse_duration
parse_duration(duration_str) ==
    LET stripped == IF StartsWith(duration_str, "PT")
                    THEN SubSeq(duration_str, 3, Len(duration_str))
                    ELSE duration_str
    IN  IF Contains(stripped, "H")
        THEN LET hours == ParseInt(BeforeFirst(stripped, "H"))
             IN  IF hours.ok THEN hours.value ELSE 5
        ELSE 0

direct_route_priced_by_cash(origin, destination, offer) ==
    [origin |-> origin, destination |-> destination, route_type |-> "direct",
     total_miles |-> (offer.price.n \div offer.price.d) * 50,
     total_fees |-> 50, segments |-> offer.segments,
     duration_hours |-> parse_duration(offer.duration),
     layover_airports |-> <<>>, cash_price |-> offer.price,
     airline |-> offer.airline]

\* The FlightRoute find_direct_routes builds from a zero-stop offer.
direct_route(origin, destination, offer) ==
    LET distance == calculate_distance(origin, destination)
        is_international == distance > 2000
        award_cost == get_award_cost(origin, destination, is_international)
        duration_hours == parse_duration(offer.duration)
    IN  [origin |-> origin, destination |-> destination, route_type |-> "direct",
         total_miles |-> award_cost, total_fees |-> 50,
         segments |-> offer.segments, duration_hours |-> duration_hours,
         layover_airports |-> <<>>, cash_price |-> offer.price,
         airline |-> offer.airline]

RECURSIVE direct_loop_unfiltered(_, _, _)
direct_loop_unfiltered(origin, destination, flight_offers) ==
    IF flight_offers = <<>> THEN <<>>
    ELSE <<direct_route(origin, destination, Head(flight_offers))>>
            \o direct_loop_unfiltered(origin, destination, Tail(flight_offers))

\* The loop of find_direct_routes over the offers search_flights returned.
RECURSIVE direct_loop(_, _, _)
direct_loop(origin, destination, flight_offers) ==
    IF flight_offers = <<>> THEN <<>>
    ELSE LET offer == Head(flight_offers)
             rest == direct_loop(origin, destination, Tail(flight_offers))
         IN  IF offer.stops = 0
             THEN <<direct_route(origin, destination, offer)>> \o rest
             ELSE rest

\* RouteOptimizer.find_direct_routes, given what search_flights returns.
find_direct_routes(origin, destination, flight_offers) ==
    direct_loop(origin, destination, flight_offers)

layover_route_no_buffer(origin, destination, hub, segment1, segment2) ==
    [origin |-> origin, destination |-> destination, route_type |-> "layover",
     total_miles |-> get_award_cost(origin, hub, FALSE)
                        + get_award_cost(hub, destination, FALSE),
     total_fees |-> 75,
     segments |-> segment1.segments \o segment2.segments,
     duration_hours |-> parse_duration(segment1.duration)
                            + parse_duration(segment2.duration),
     layover_airports |-> <<hub>>,
     cash_price |-> RAdd(segment1.price, segment2.price),
     airline |-> segment1.airline \o "/" \o segment2.airline]

LegCostByDistance(origin, destination) ==
    get_award_cost(origin, destination, calculate_distance(origin, destination) > 2000)

layover_route_international_legs(origin, destination, hub, segment1, segment2) ==
    [origin |-> origin, destination |-> destination, route_type |-> "layover",
     total_miles |-> LegCostByDistance(origin, hub) + LegCostByDistance(hub, destination),
     total_fees |-> 75,
     segments |-> segment1.segments \o segment2.segments,
     duration_hours |-> parse_duration(segment1.duration)
                            + parse_duration(segment2.duration) + 2,
     layover_airports |-> <<hub>>,
     cash_price |-> RAdd(segment1.price, segment2.price),
     airline |-> segment1.airline \o "/" \o segment2.airline]

\* The FlightRoute find_layover_routes builds from the first offer of each leg.
layover_route(origin, destination, hub, segment1, segment2) ==
    LET segment1_cost == get_award_cost(origin, hub, FALSE)
        segment2_cost == get_award_cost(hub, destination, FALSE)
        total_miles == segment1_cost + segment2_cost
        total_fees == 75
        duration1 == parse_duration(segment1.duration)
        duration2 == parse_duration(segment2.duration)
        total_duration == duration1 + duration2 + 2
        combined_segments == segment1.segments \o segment2.segments
    IN  [origin |-> origin, destination |-> destination, route_type |-> "layover",
         total_miles |-> total_miles, total_fees |-> total_fees,
         segments |-> combined_segments, duration_hours |-> total_duration,
         layover_airports |-> <<hub>>,
         cash_price |-> RAdd(segment1.price, segment2.price),
         airline |-> segment1.airline \o "/" \o segment2.airline]

RECURSIVE layover_loop_no_skip(_, _, _, _, _)
layover_loop_no_skip(origin, destination, hub_airports, responses, i) ==
    IF i > Len(hub_airports) THEN <<>>
    ELSE LET hub == hub_airports[i]
             segment1_offers == responses[i].leg1
             segment2_offers == responses[i].leg2
             rest == layover_loop_no_skip(origin, destination, hub_airports,
                                          responses, i + 1)
         IN  IF segment1_offers # <<>> /\ segment2_offers # <<>>
             THEN <<layover_route(origin, destination, hub,
                                  segment1_offers[1], segment2_offers[1])>> \o rest
             ELSE rest

\* The loop of find_layover_routes from candidate i on; responses[i] holds what
\* search_flights returns for the two legs through candidate i.
RECURSIVE layover_loop(_, _, _, _, _)
layover_loop(origin, destination, hub_airports, responses, i) ==
    IF i > Len(hub_airports) THEN <<>>
    ELSE LET hub == hub_airports[i]
             segment1_offers == responses[i].leg1
             segment2_offers == responses[i].leg2
             rest == layover_loop(origin, destination, hub_airports, responses, i + 1)
         IN  IF hub \in {origin, destination} THEN rest
             ELSE IF segment1_offers # <<>> /\ segment2_offers # <<>>
             THEN <<layover_route(origin, destination, hub,
                                  segment1_offers[1], segment2_offers[1])>> \o rest
             ELSE rest

\* hub_airports, or the first three major hubs when the caller gives None.
effective_hubs(hub_arg) ==
    IF hub_arg.is_none THEN SubSeq(major_hubs, 1, 3) ELSE hub_arg.list

\* RouteOptimizer.find_layover_routes, given what search_flights returns.
find_layover_routes(origin, destination, hub_arg, responses) ==
    layover_loop(origin, destination, effective_hubs(hub_arg), responses, 1)

(***************************************************************************)
(* The calls of the route constructor.                                     *)
(***************************************************************************)
CallFindDirectRoutes ==
    /\ op = "init"
    /\ \E o \in RouteAirports, d \in RouteAirports :
            \E offers \in SearchResponses(o, d) :
                /\ op' = "find_direct_routes"
                /\ args' = [origin |-> o, destination |-> d, flight_offers |-> offers]
                /\ ret' = find_direct_routes(o, d, offers)
                /\ UNCHANGED <<prev_direct, prev_recommend>>

\* The answers to the two requests made for each candidate hub.
LegAnswers(o, d, hubs, kinds) ==
    [i \in 1..Len(hubs) |->
        [leg1 |-> LegResponse(o, hubs[i], kinds[i][1]),
         leg2 |-> LegResponse(hubs[i], d, kinds[i][2])]]

CallFindLayoverRoutes ==
    /\ op = "init"
    /\ \E o \in RouteAirports, d \in RouteAirports :
            \E hubs \in SeqsUpTo(HubSamples, MaxHubs) :
                \E kinds \in [1..Len(hubs) -> LegKinds \X LegKinds] :
                    LET hub_arg == [is_none |-> FALSE, list |-> hubs]
                        responses == LegAnswers(o, d, hubs, kinds)
                    IN  /\ op' = "find_layover_routes"
                        /\ args' = [origin |-> o, destination |-> d,
                                    hub_airports |-> hub_arg, responses |-> responses]
                        /\ ret' = find_layover_routes(o, d, hub_arg, responses)
                        /\ UNCHANGED <<prev_direct, prev_recommend>>

\* The same call with hub_airports left to its default.
CallFindLayoverRoutesDefault ==
    /\ op = "init"
    /\ \E o \in RouteAirports, d \in RouteAirports :
            \E kinds \in [1..3 -> {"none", "mock"} \X {"none", "mock"}] :
                LET hub_arg == [is_none |-> TRUE]
                    responses == LegAnswers(o, d, effective_hubs(hub_arg), kinds)
                IN  /\ op' = "find_layover_routes"
                    /\ args' = [origin |-> o, destination |-> d,
                                hub_airports |-> hub_arg, responses |-> responses]
                    /\ ret' = find_layover_routes(o, d, hub_arg, responses)
                    /\ UNCHANGED <<prev_direct, prev_recommend>>

NextDirect ==
    \/ Return
    \/ CallFindDirectRoutes

SpecDirect == InitState /\ [][NextDirect]_vars

NextLayover ==
    \/ Return
    \/ CallFindLayoverRoutes
    \/ CallFindLayoverRoutesDefault

SpecLayover == InitState /\ [][NextLayover]_vars

(***************************************************************************)
(* Properties of the route constructor.                                    *)
(***************************************************************************)
\* The k-th smallest element of a set of positions.
KthOf(P, k) == CHOOSE i \in P : Cardinality({j \in P : j <= i}) = k

IsDirectSearch == op = "find_direct_routes"

ZeroStopPositions ==
    {i \in 1..Len(args.flight_offers) : args.flight_offers[i].stops = 0}

\* C7: direct_routes returns exactly one route per zero-stop offer, in offer
\* order, and none for an offer with stops; every route has route_type direct,
\* no layover airports, total_fees 50 and the offer's cash price and segments.
C7_OneRoutePerZeroStopOffer ==
    IsDirectSearch =>
        /\ Len(ret) = Cardinality(ZeroStopPositions)
        /\ \A k \in 1..Len(ret) :
            LET offer == args.flight_offers[KthOf(ZeroStopPositions, k)]
            IN  /\ ret[k].route_type = "direct"
                /\ ret[k].layover_airports = <<>>
                /\ ret[k].total_fees = 50
                /\ ret[k].cash_price = offer.price
                /\ ret[k].segments = offer.segments
                /\ ret[k].origin = args.origin
                /\ ret[k].destination = args.destination

C7_Witness ==
    /\ IsDirectSearch
    /\ Len(args.flight_offers) = 2
    /\ args.flight_offers[1].stops = 1
    /\ args.flight_offers[2].stops = 0
    /\ Len(ret) = 1
    /\ ret[1].cash_price = args.flight_offers[2].price

\* C8: the total_units of a direct route depends only on the city pair: it is
\* cost(origin, destination, international = looked-up distance > 2000),
\* whatever the offer's cash price, carrier or duration; two searches of the
\* same pair yield the same total_units.
C8_UnitsDependOnPairOnly ==
    IsDirectSearch =>
        /\ \A k \in 1..Len(ret) :
               ret[k].total_miles =
                   ClaimedZonePrice(calculate_distance(args.origin, args.destination),
                                    calculate_distance(args.origin, args.destination) > 2000)
        /\ ( /\ "origin" \in DOMAIN prev_direct
             /\ prev_direct.origin = args.origin
             /\ prev_direct.destination = args.destination ) =>
                \A k \in 1..Len(ret) : \A m \in prev_direct.total_miles :
                    ret[k].total_miles = m

C8_Witness ==
    /\ IsDirectSearch
    /\ "origin" \in DOMAIN prev_direct
    /\ prev_direct.origin = args.origin
    /\ prev_direct.destination = args.destination
    /\ prev_direct.total_miles # {}
    /\ Len(ret) = 2
    /\ ret[1].cash_price # ret[2].cash_price
    /\ ret[1].airline # ret[2].airline
    /\ ret[1].duration_hours # ret[2].duration_hours
    /\ ret[1].total_miles = ret[2].total_miles

IsLayoverSearch == op = "find_layover_routes"

CandidateHubs ==
    IF args.hub_airports.is_none THEN <<"ATL", "DFW", "ORD">> ELSE args.hub_airports.list

\* The candidates the claim says yield a route.
ProductivePositions ==
    {i \in 1..Len(CandidateHubs) :
        /\ CandidateHubs[i] # args.origin
        /\ CandidateHubs[i] # args.destination
        /\ Len(args.responses[i].leg1) >= 1
        /\ Len(args.responses[i].leg2) >= 1}

\* C9: layover_routes produces a route through a candidate hub if and only if
\* the hub differs from origin and destination and both leg requests return
\* at least one offer; each candidate contributes at most one route and the
\* routes appear in candidate order.
C9_RouteIffBothLegs ==
    IsLayoverSearch =>
        /\ Len(ret) = Cardinality(ProductivePositions)
        /\ \A k \in 1..Len(ret) :
               /\ ret[k].route_type = "layover"
               /\ ret[k].layover_airports =
                      <<CandidateHubs[KthOf(ProductivePositions, k)]>>

C9_Witness ==
    /\ IsLayoverSearch
    /\ ~args.hub_airports.is_none
    /\ Len(CandidateHubs) = 2
    /\ CandidateHubs[1] = args.origin
    /\ Len(args.responses[1].leg1) >= 1 /\ Len(args.responses[1].leg2) >= 1
    /\ CandidateHubs[2] \notin {args.origin, args.destination}
    /\ Len(args.responses[2].leg1) >= 1 /\ Len(args.responses[2].leg2) >= 1
    /\ Len(ret) = 1

\* C10: a route through hub H has total_units = cost(origin, H) + cost(H,
\* destination), total_fees 75, duration_hours = duration(leg 1) + duration(leg
\* 2) + 2, segments = leg-1 segments then leg-2 segments, layover_airports [H].
C10_LayoverRouteFields ==
    IsLayoverSearch =>
        \A k \in 1..Len(ret) :
            LET i == KthOf(ProductivePositions, k)
                hub == CandidateHubs[i]
                leg1 == args.responses[i].leg1[1]
                leg2 == args.responses[i].leg2[1]
            IN  /\ ret[k].total_miles =
                       ClaimedZonePrice(calculate_distance(args.origin, hub), FALSE)
                         + ClaimedZonePrice(calculate_distance(hub, args.destination), FALSE)
                /\ ret[k].total_fees = 75
                /\ ret[k].duration_hours =
                       parse_duration(leg1.duration) + parse_duration(leg2.duration) + 2
                /\ ret[k].segments = leg1.segments \o leg2.segments
                /\ ret[k].layover_airports = <<hub>>

C10_Witness ==
    /\ IsLayoverSearch
    /\ args.origin = "JFK" /\ args.destination = "LAX"
    /\ Len(ret) = 1
    /\ ret[1].layover_airports = <<"ORD">>
    /\ ret[1].total_miles = 12500 + 25000
    /\ ret[1].duration_hours = 5 + 4 + 2
    /\ Len(ret[1].segments) = 3

(***************************************************************************)
(* amadeus_client.py: the flight-data source.  The environment of one      *)
(* request is whether the client was configured (is_available) and what    *)
(* the API call does: it raises ResponseError, it raises something else,   *)
(* or it answers with a list of raw offers.  A raw offer is named by what  *)
(* parsing it does.  A function that can raise returns a record            *)
(* [raised, value]: raised is "" after a normal return and the exception's *)
(* name otherwise.                                                         *)
(***************************************************************************)
MaxRawOffers == 2

RawKinds == {"nonstop", "onestop", "mock_like", "missing_key", "no_segments", "bad_price"}

ApiOutcomes ==
    { [outcome |-> "ResponseError", data |-> <<>>],
      [outcome |-> "Exception", data |-> <<>>] }
        \cup { [outcome |-> "data", data |-> d] : d \in SeqsUpTo(RawKinds, MaxRawOffers) }

\* The exception the FlightOffer(...) expression raises on one raw offer:
\* a missing key, an empty segment list, or a price float() cannot read.
raw_exception(raw) ==
    CASE raw = "missing_key" -> "KeyError"
      [] raw = "no_segments" -> "IndexError"
      [] raw = "bad_price" -> "ValueError"
      [] OTHER -> ""

\* The FlightOffer built from a well-formed raw offer.  "mock_like" is a live
\* itinerary with the very fare, carrier, flight number and duration the mock
\* generator makes up; only its id is the API's.
parsed_offer(origin, destination, raw) ==
    CASE raw = "nonstop" ->
            LiveOffer(origin, destination,
                [price |-> FromInt(100), airline |-> "AA", duration |-> "PT3H"], 1)
      [] raw = "onestop" ->
            LiveOffer(origin, destination,
                [price |-> Rat(1999, 10), airline |-> "DL", duration |-> "PT2H30M"], 2)
      [] raw = "mock_like" ->
            [get_mock_flights(origin, destination)[1] EXCEPT !.id = "1"]

RECURSIVE parse_loop(_, _, _, _, _)
parse_loop(origin, destination, offers_data, i, offers) ==
    IF i > Len(offers_data) THEN [raised |-> "", value |-> offers]
    ELSE LET exc == raw_exception(offers_data[i])
         IN  IF exc = ""
             THEN parse_loop(origin, destination, offers_data, i + 1,
                      Append(offers, parsed_offer(origin, destination, offers_data[i])))
             ELSE IF exc \in {"KeyError", "IndexError"}
             THEN parse_loop(origin, destination, offers_data, i + 1, offers)
             ELSE [raised |-> exc, value |-> <<>>]

\* AmadeusClient._parse_flight_offers
parse_flight_offers(origin, destination, offers_data) ==
    parse_loop(origin, destination, offers_data, 1, <<>>)

\* search_flights with only its ResponseError handler.
search_flights_one_handler(available, origin, destination, api) ==
    IF ~available
    THEN [raised |-> "", value |-> get_mock_flights(origin, destination)]
    ELSE IF api.outcome = "ResponseError"
    THEN [raised |-> "", value |-> get_mock_flights(origin, destination)]
    ELSE IF api.outcome = "Exception"
    THEN [raised |-> "Exception", value |-> <<>>]
    ELSE parse_flight_offers(origin, destination, api.data)

\* AmadeusClient.search_flights, as the route constructor calls it (no
\* return date).
search_flights(available, origin, destination, api) ==
    IF ~available
    THEN [raised |-> "", value |-> get_mock_flights(origin, destination)]
    ELSE IF api.outcome = "ResponseError"
    THEN [raised |-> "", value |-> get_mock_flights(origin, destination)]
    ELSE IF api.outcome = "Exception"
    THEN [raised |-> "", value |-> get_mock_flights(origin, destination)]
    ELSE LET parsed == parse_flight_offers(origin, destination, api.data)
         IN  IF parsed.raised = "" THEN parsed
             ELSE [raised |-> "", value |-> get_mock_flights(origin, destination)]

\* RouteOptimizer.find_direct_routes with the search it starts with: an
\* exception of the search is not caught.
find_direct_routes_from_source(available, origin, destination, api) ==
    LET flight_offers == search_flights(available, origin, destination, api)
    IN  IF flight_offers.raised # "" THEN flight_offers
        ELSE [raised |-> "",
              value |-> find_direct_routes(origin, destination, flight_offers.value)]

CallSearchFlights ==
    /\ op = "init"
    /\ \E available \in BOOLEAN, o \in RouteAirports, d \in RouteAirports, api \in ApiOutcomes :
            /\ op' = "search_flights"
            /\ args' = [available |-> available, origin |-> o, destination |-> d, api |-> api]
            /\ ret' = search_flights(available, o, d, api)
            /\ UNCHANGED <<prev_direct, prev_recommend>>

CallFindDirectRoutesFromSource ==
    /\ op = "init"
    /\ \E available \in BOOLEAN, o \in RouteAirports, d \in RouteAirports, api \in ApiOutcomes :
            /\ op' = "find_direct_routes_from_source"
            /\ args' = [available |-> available, origin |-> o, destination |-> d, api |-> api]
            /\ ret' = find_direct_routes_from_source(available, o, d, api)
            /\ UNCHANGED <<prev_direct, prev_recommend>>

\* The answers the two requests per hub can get in a layover search.
LegApis ==
    { [outcome |-> "ResponseError", data |-> <<>>],
      [outcome |-> "data", data |-> <<>>],
      [outcome |-> "data", data |-> <<"nonstop">>],
      [outcome |-> "data", data |-> <<"bad_price">>] }

\* The two searches find_layover_routes makes for each hub it does not skip.
leg_searches(available, origin, destination, hub_airports, apis) ==
    [i \in 1..Len(hub_airports) |->
        [leg1 |-> search_flights(available, origin, hub_airports[i], apis[i].leg1),
         leg2 |-> search_flights(available, hub_airports[i], destination, apis[i].leg2)]]

\* RouteOptimizer.find_layover_routes with the searches it makes: an
\* exception of a search is not caught.
find_layover_routes_from_source(available, origin, destination, hub_arg, apis) ==
    LET hub_airports == effective_hubs(hub_arg)
        searches == leg_searches(available, origin, destination, hub_airports, apis)
        searched == {i \in 1..Len(hub_airports) : hub_airports[i] \notin {origin, destination}}
        failed == {i \in searched : searches[i].leg1.raised # "" \/ searches[i].leg2.raised # ""}
        responses == [i \in 1..Len(hub_airports) |->
                        [leg1 |-> searches[i].leg1.value, leg2 |-> searches[i].leg2.value]]
    IN  IF failed # {}
        THEN LET first == CHOOSE i \in failed : \A j \in failed : i <= j
             IN  IF searches[first].leg1.raised # "" THEN searches[first].leg1
                 ELSE searches[first].leg2
        ELSE [raised |-> "",
              value |-> find_layover_routes(origin, destination, hub_arg, responses)]

CallFindLayoverRoutesFromSource ==
    /\ op = "init"
    /\ \E available \in BOOLEAN, o \in RouteAirports, d \in RouteAirports, hub \in HubSamples :
            \E api1 \in LegApis, api2 \in LegApis :
                LET hub_arg == [is_none |-> FALSE, list |-> <<hub>>]
                    apis == <<[leg1 |-> api1, leg2 |-> api2]>>
                IN  /\ op' = "find_layover_routes_from_source"
                    /\ args' = [available |-> available, origin |-> o, destination |-> d,
                                hub_airports |-> hub_arg, apis |-> apis]
                    /\ ret' = find_layover_routes_from_source(available, o, d, hub_arg, apis)
                    /\ UNCHANGED <<prev_direct, prev_recommend>>

NextSource ==
    \/ Return
    \/ CallSearchFlights
    \/ CallFindDirectRoutesFromSource
    \/ CallFindLayoverRoutesFromSource

SpecSource == InitState /\ [][NextSource]_vars

\* The request cannot be answered from live data: no client, a failing
\* call, or a raw offer whose parsing raises something other than the two
\* exceptions the parser skips.
ParsingRaises(data) ==
    \E k \in 1..Len(data) : data[k] = "bad_price"

Degraded(available, api) ==
    \/ ~available
    \/ api.outcome \in {"ResponseError", "Exception"}
    \/ api.outcome = "data" /\ ParsingRaises(api.data)

IsSourceCall ==
    op \in {"search_flights", "find_direct_routes_from_source",
           "find_layover_routes_from_source"}

\* C11: a search never raises, and a search behind it leaves route
\* construction without an exception too; whenever the request is degraded
\* the search returns exactly two offers, the first with no stop and the
\* second with one, and every degraded request for the same origin and
\* destination returns the very same two offers.
C11_SearchNeverRaises ==
    IsSourceCall =>
        /\ ret.raised = ""
        /\ (op = "search_flights" /\ Degraded(args.available, args.api)) =>
                /\ Len(ret.value) = 2
                /\ ret.value[1].stops = 0
                /\ ret.value[2].stops = 1
                /\ \A k \in 1..2 : /\ ret.value[k].origin = args.origin
                                   /\ ret.value[k].destination = args.destination
                /\ \A available \in BOOLEAN, api \in ApiOutcomes :
                        Degraded(available, api) =>
                            search_flights(available, args.origin, args.destination, api) = ret

C11_Witness ==
    /\ op = "search_flights"
    /\ args.available
    /\ args.api.outcome = "data"
    /\ ParsingRaises(args.api.data)
    /\ ret.raised = ""
    /\ Len(ret.value) = 2

\* C12: a result built from fallback offers can be told from every result
\* built from live offers by the returned value alone: no live answer to the
\* same direct search yields the routes a degraded search yields.
C12_FallbackDistinguishable ==
    (op = "find_direct_routes_from_source" /\ Degraded(args.available, args.api)) =>
        \A api \in ApiOutcomes :
            ~Degraded(TRUE, api) =>
                find_direct_routes_from_source(TRUE, args.origin, args.destination, api) # ret

(***************************************************************************)
(* route_optimizer.py: ranking and the savings of a layover routing.       *)
(* The routes handed to the ranker are FlightRoute records; the samples    *)
(* include a free route (total_cost 0), which the guard of the efficiency  *)
(* score is written for, and routes that tie.                              *)
(***************************************************************************)
MaxRanked == 3

SampleRoute(total_miles, total_fees, nsegs, duration_hours) ==
    [origin |-> "JFK", destination |-> "LAX",
     route_type |-> IF nsegs = 1 THEN "direct" ELSE "layover",
     total_miles |-> total_miles, total_fees |-> total_fees,
     segments |-> [k \in 1..nsegs |-> Segment("JFK", "LAX", "AA", "100")],
     duration_hours |-> duration_hours,
     layover_airports |-> IF nsegs = 1 THEN <<>> ELSE <<"ORD">>,
     cash_price |-> FromInt(100), airline |-> "AA"]

RouteSamples ==
    { SampleRoute(0, 0, 1, 0),
      SampleRoute(12500, 50, 1, 3),
      SampleRoute(12500, 50, 1, 4),
      SampleRoute(25000, 50, 1, 5),
      SampleRoute(12500, 75, 2, 7),
      SampleRoute(25000, 75, 2, 7) }

CostSamples == {-100, 0, 800, 900, 1000, 1200, 1250}

\* FlightRoute.total_cost
total_cost(route) == route.total_miles + route.total_fees

value_analysis_flat_penalty(route) ==
    LET efficiency_score == IF total_cost(route) > 0
                            THEN Rat(1000, total_cost(route)) ELSE RZero
        complexity_penalty == Rat(1, 10)
    IN  [route |-> route,
         total_cost |-> total_cost(route),
         cost_per_mile |-> IF route.duration_hours > 0
                           THEN Rat(route.total_miles, route.duration_hours) ELSE RZero,
         efficiency_score |-> efficiency_score,
         complexity_penalty |-> complexity_penalty,
         final_score |-> RSub(efficiency_score, complexity_penalty)]

value_analysis_no_penalty(route) ==
    LET efficiency_score == IF total_cost(route) > 0
                            THEN Rat(1000, total_cost(route)) ELSE RZero
    IN  [route |-> route,
         total_cost |-> total_cost(route),
         cost_per_mile |-> IF route.duration_hours > 0
                           THEN Rat(route.total_miles, route.duration_hours) ELSE RZero,
         efficiency_score |-> efficiency_score,
         complexity_penalty |-> Rat(Len(route.segments), 10),
         final_score |-> efficiency_score]

value_analysis_inverted(route) ==
    LET efficiency_score == IF total_cost(route) > 0
                            THEN Rat(total_cost(route), 1000) ELSE RZero
        complexity_penalty == Rat(Len(route.segments), 10)
    IN  [route |-> route,
         total_cost |-> total_cost(route),
         cost_per_mile |-> IF route.duration_hours > 0
                           THEN Rat(route.total_miles, route.duration_hours) ELSE RZero,
         efficiency_score |-> efficiency_score,
         complexity_penalty |-> complexity_penalty,
         final_score |-> RSub(efficiency_score, complexity_penalty)]

\* The value_analysis dictionary rank_routes_by_value builds for one route.
value_analysis(route) ==
    LET efficiency_score == IF total_cost(route) > 0
                            THEN Rat(1000, total_cost(route)) ELSE RZero
        complexity_penalty == Rat(Len(route.segments), 10)
    IN  [route |-> route,
         total_cost |-> total_cost(route),
         cost_per_mile |-> IF route.duration_hours > 0
                           THEN Rat(route.total_miles, route.duration_hours) ELSE RZero,
         efficiency_score |-> efficiency_score,
         complexity_penalty |-> complexity_penalty,
         final_score |-> RSub(efficiency_score, complexity_penalty)]

rank_routes_unsorted(routes_list) ==
    [i \in 1..Len(routes_list) |-> value_analysis(routes_list[i])]

\* RouteOptimizer.rank_routes_by_value
rank_routes_by_value(routes_list) ==
    LET ranked_routes == [i \in 1..Len(routes_list) |-> value_analysis(routes_list[i])]
        keys == [i \in 1..Len(routes_list) |-> ranked_routes[i].final_score]
    IN  Permute(ranked_routes, sort_reverse(keys))

synthetic_savings_at_least(direct_cost, layover_cost) ==
    LET savings == direct_cost - layover_cost
        savings_percentage == IF direct_cost > 0
                              THEN RMul(Rat(savings, direct_cost), FromInt(100))
                              ELSE RZero
    IN  [direct_cost |-> direct_cost, layover_cost |-> layover_cost,
         savings |-> savings, savings_percentage |-> savings_percentage,
         is_worthwhile |-> savings > 0 /\ RGe(savings_percentage, FromInt(10))]

\* RouteOptimizer.calculate_synthetic_savings
calculate_synthetic_savings(direct_cost, layover_cost) ==
    LET savings == direct_cost - layover_cost
        savings_percentage == IF direct_cost > 0
                              THEN RMul(Rat(savings, direct_cost), FromInt(100))
                              ELSE RZero
    IN  [direct_cost |-> direct_cost, layover_cost |-> layover_cost,
         savings |-> savings, savings_percentage |-> savings_percentage,
         is_worthwhile |-> savings > 0 /\ RGt(savings_percentage, FromInt(10))]

CallRankRoutesByValue ==
    /\ op = "init"
    /\ \E routes_list \in SeqsUpTo(RouteSamples, MaxRanked) :
            /\ op' = "rank_routes_by_value"
            /\ args' = [routes_list |-> routes_list]
            /\ ret' = rank_routes_by_value(routes_list)
            /\ UNCHANGED <<prev_direct, prev_recommend>>

CallCalculateSyntheticSavings ==
    /\ op = "init"
    /\ \E direct_cost \in CostSamples, layover_cost \in CostSamples :
            /\ op' = "calculate_synthetic_savings"
            /\ args' = [direct_cost |-> direct_cost, layover_cost |-> layover_cost]
            /\ ret' = calculate_synthetic_savings(direct_cost, layover_cost)
            /\ UNCHANGED <<prev_direct, prev_recommend>>

NextRank ==
    \/ Return
    \/ CallRankRoutesByValue
    \/ CallCalculateSyntheticSavings

SpecRank == InitState /\ [][NextRank]_vars

(***************************************************************************)
(* Properties of the ranking.                                              *)
(***************************************************************************)
IsRankCall == op = "rank_routes_by_value"

Rearrangements(n) ==
    {p \in [1..n -> 1..n] : \A i, j \in 1..n : i # j => p[i] # p[j]}

\* C13: rank returns one record per input route, and in every record
\* total_cost is the route's units plus fees, efficiency_score is
\* 1000 / total_cost when total_cost > 0 and 0 otherwise, complexity_penalty
\* is a tenth of the number of segments, and final_score is the efficiency
\* less the penalty.
C13_RankRecordFields ==
    IsRankCall =>
        /\ Len(ret) = Len(args.routes_list)
        /\ \A i \in 1..Len(args.routes_list) :
                \E k \in 1..Len(ret) : ret[k].route = args.routes_list[i]
        /\ \A k \in 1..Len(ret) :
                LET rec == ret[k]
                IN  /\ rec.total_cost = rec.route.total_miles + rec.route.total_fees
                    /\ IF rec.total_cost > 0
                       THEN IsQuotient(rec.efficiency_score, 1000, rec.total_cost)
                       ELSE rec.efficiency_score = RZero
                    /\ IsQuotient(rec.complexity_penalty, Len(rec.route.segments), 10)
                    /\ rec.final_score.d > 0
                    /\ RAdd(rec.final_score, rec.complexity_penalty) = rec.efficiency_score

C13_Witness ==
    /\ IsRankCall
    /\ \E k \in 1..Len(ret) : ret[k].total_cost > 0 /\ Len(ret[k].route.segments) = 2
    /\ \E k \in 1..Len(ret) : ret[k].total_cost <= 0 /\ RLt(ret[k].final_score, RZero)

\* C14: the records rank returns are the input routes' records rearranged by
\* a permutation that puts final_score in non-increasing order and keeps
\* routes of equal final_score in their input order.
C14_RankSortedStable ==
    IsRankCall =>
        \E p \in Rearrangements(Len(args.routes_list)) :
            /\ Len(ret) = Len(args.routes_list)
            /\ \A k \in 1..Len(ret) : ret[k].route = args.routes_list[p[k]]
            /\ \A k \in 1..Len(ret), l \in 1..Len(ret) :
                    k < l =>
                        /\ RGe(ret[k].final_score, ret[l].final_score)
                        /\ ret[k].final_score = ret[l].final_score => p[k] < p[l]

C14_Witness ==
    /\ IsRankCall
    /\ Len(ret) = 3
    /\ ret[1].final_score = ret[2].final_score
    /\ ret[1].route # ret[2].route
    /\ ret[1].route = args.routes_list[2]
    /\ ret[2].route = args.routes_list[3]
    /\ ret[3].route = args.routes_list[1]

C16_SyntheticSavings ==
    op = "calculate_synthetic_savings" =>
        LET direct == args.direct_cost
            layover == args.layover_cost
        IN  /\ ret.savings = direct - layover
            /\ IF direct > 0
               THEN IsQuotient(ret.savings_percentage, (direct - layover) * 100, direct)
               ELSE ret.savings_percentage = RZero
            /\ ret.is_worthwhile <=>
                    (/\ direct - layover > 0
                     /\ ret.savings_percentage.n > 10 * ret.savings_percentage.d)
            /\ (direct = 1000 /\ layover = 1200) =>
                    ret.savings = -200 /\ ~ret.is_worthwhile
            /\ (direct = 1000 /\ layover = 800) =>
                    /\ ret.savings = 200
                    /\ ret.savings_percentage = FromInt(20)
                    /\ ret.is_worthwhile
            /\ (direct = 1000 /\ layover = 900) =>
                    ret.savings_percentage = FromInt(10) /\ ~ret.is_worthwhile

C16_Witness ==
    /\ op = "calculate_synthetic_savings"
    /\ args.direct_cost = 1000
    /\ args.layover_cost = 900
    /\ ret.savings = 100
    /\ ~ret.is_worthwhile

(***************************************************************************)
(* route_optimizer.py: find_optimal_routes, and recommender.py.            *)
(* Dictionaries are records; a dictionary some branch returns with fewer   *)
(* keys is a record with fewer fields.  The arrow of a route description   *)
(* is written "->".                                                        *)
(***************************************************************************)
max_routes == 5

\* seq[:n]
FirstN(seq, n) == SubSeq(seq, 1, IF Len(seq) < n THEN Len(seq) ELSE n)

\* The worthwhile layover routes, each with its savings against direct_cost.
RECURSIVE savings_loop(_, _)
savings_loop(direct_cost, layover_routes) ==
    IF layover_routes = <<>> THEN <<>>
    ELSE LET layover_route_ == Head(layover_routes)
             savings == calculate_synthetic_savings(direct_cost, total_cost(layover_route_))
             rest == savings_loop(direct_cost, Tail(layover_routes))
         IN  IF savings.is_worthwhile
             THEN <<[layover_route |-> layover_route_, savings_analysis |-> savings]>> \o rest
             ELSE rest

find_optimal_routes_untruncated(origin, destination, flight_offers, responses) ==
    With(find_direct_routes(origin, destination, flight_offers), LAMBDA direct_routes :
    With(find_layover_routes(origin, destination, [is_none |-> TRUE], responses),
         LAMBDA layover_routes :
    With(direct_routes \o layover_routes, LAMBDA all_routes :
        IF all_routes = <<>>
        THEN [routes |-> <<>>, best_route |-> None, savings_opportunities |-> <<>>,
              message |-> "No routes available for the specified criteria."]
        ELSE With(rank_routes_by_value(all_routes), LAMBDA top_routes :
             [routes |-> top_routes,
              best_route |-> IF top_routes # <<>> THEN top_routes[1] ELSE None,
              savings_opportunities |->
                  IF Len(direct_routes) > 0 /\ Len(layover_routes) > 0
                  THEN savings_loop(total_cost(direct_routes[1]), layover_routes)
                  ELSE <<>>,
              total_routes_found |-> Len(all_routes),
              direct_routes_count |-> Len(direct_routes),
              layover_routes_count |-> Len(layover_routes)]))))

\* RouteOptimizer.find_optimal_routes with max_routes left to its default,
\* given what search_flights returns for the direct search (flight_offers)
\* and for the two legs through each default hub (responses).
find_optimal_routes(origin, destination, flight_offers, responses) ==
    With(find_direct_routes(origin, destination, flight_offers), LAMBDA direct_routes :
    With(find_layover_routes(origin, destination, [is_none |-> TRUE], responses),
         LAMBDA layover_routes :
    With(direct_routes \o layover_routes, LAMBDA all_routes :
        IF all_routes = <<>>
        THEN [routes |-> <<>>, best_route |-> None, savings_opportunities |-> <<>>,
              message |-> "No routes available for the specified criteria."]
        ELSE With(FirstN(rank_routes_by_value(all_routes), max_routes), LAMBDA top_routes :
             [routes |-> top_routes,
              best_route |-> IF top_routes # <<>> THEN top_routes[1] ELSE None,
              savings_opportunities |->
                  IF Len(direct_routes) > 0 /\ Len(layover_routes) > 0
                  THEN savings_loop(total_cost(direct_routes[1]), layover_routes)
                  ELSE <<>>,
              total_routes_found |-> Len(all_routes),
              direct_routes_count |-> Len(direct_routes),
              layover_routes_count |-> Len(layover_routes)]))))

HotelEntry(chain, category, points, cash_value) ==
    [chain |-> chain, category |-> category, points |-> points, cash_value |-> cash_value]

\* RedemptionRecommender._load_hotel_data, in the order the dictionaries are
\* iterated.
hotel_data ==
    << HotelEntry("marriott", "category_1", 7500, 75),
       HotelEntry("marriott", "category_2", 12500, 125),
       HotelEntry("marriott", "category_3", 17500, 175),
       HotelEntry("marriott", "category_4", 25000, 250),
       HotelEntry("marriott", "category_5", 35000, 350),
       HotelEntry("marriott", "category_6", 50000, 500),
       HotelEntry("marriott", "category_7", 70000, 700),
       HotelEntry("marriott", "category_8", 100000, 1000),
       HotelEntry("hilton", "category_1", 10000, 60),
       HotelEntry("hilton", "category_2", 20000, 120),
       HotelEntry("hilton", "category_3", 30000, 180),
       HotelEntry("hilton", "category_4", 40000, 240),
       HotelEntry("hilton", "category_5", 50000, 300),
       HotelEntry("hilton", "category_6", 60000, 360),
       HotelEntry("hilton", "category_7", 70000, 420),
       HotelEntry("hilton", "category_8", 80000, 480),
       HotelEntry("hyatt", "category_1", 3500, 70),
       HotelEntry("hyatt", "category_2", 6500, 130),
       HotelEntry("hyatt", "category_3", 9000, 180),
       HotelEntry("hyatt", "category_4", 12000, 240),
       HotelEntry("hyatt", "category_5", 17000, 340),
       HotelEntry("hyatt", "category_6", 21000, 420),
       HotelEntry("hyatt", "category_7", 25000, 500),
       HotelEntry("hyatt", "category_8", 30000, 600) >>

\* alternative_data['gift_cards']
gift_cards ==
    << [merchant |-> "amazon", points |-> 10000, value |-> 100],
       [merchant |-> "target", points |-> 10000, value |-> 100],
       [merchant |-> "walmart", points |-> 10000, value |-> 100],
       [merchant |-> "starbucks", points |-> 10000, value |-> 100],
       [merchant |-> "uber", points |-> 10000, value |-> 100] >>

\* alternative_data['statement_credits']
statement_credits ==
    << [program |-> "chase_pay_yourself_back", value_per_point |-> Rat(125, 100)],
       [program |-> "amex_statement_credit", value_per_point |-> Rat(6, 10)] >>

\* list.sort(key=...) as the permutation it applies; keys are whole numbers.
RECURSIVE InsertAscending(_, _, _)
InsertAscending(sorted, i, keys) ==
    IF sorted = <<>> THEN <<i>>
    ELSE IF keys[Head(sorted)] > keys[i] THEN <<i>> \o sorted
    ELSE <<Head(sorted)>> \o InsertAscending(Tail(sorted), i, keys)

RECURSIVE SortPrefixAscending(_, _)
SortPrefixAscending(keys, k) ==
    IF k = 0 THEN <<>> ELSE InsertAscending(SortPrefixAscending(keys, k - 1), k, keys)

sort_ascending(keys) == SortPrefixAscending(keys, Len(keys))

RECURSIVE JoinArrow(_)
JoinArrow(stops) ==
    IF Len(stops) = 1 THEN stops[1]
    ELSE stops[1] \o " -> " \o JoinArrow(Tail(stops))

\* FlightRoute.route_description
route_description(route) ==
    IF route.route_type = "direct"
    THEN route.origin \o " -> " \o route.destination
    ELSE JoinArrow(<<route.origin>> \o route.layover_airports \o <<route.destination>>)

\* The option dictionary get_flight_options builds for one route.
flight_option(route) ==
    LET cash_price == IF RGt(route.cash_price, RZero) THEN route.cash_price
                      ELSE RMul(FromInt(route.total_miles), Rat(2, 100))
        value_calc == calculate_flight_value(route.total_miles, cash_price,
                                             FromInt(route.total_fees))
    IN  [type |-> "flight", subtype |-> route.route_type,
         cost_miles |-> route.total_miles,
         cash_equivalent |-> value_calc.cash_price,
         fees |-> route.total_fees,
         value_per_mile |-> value_calc.value_per_mile,
         route |-> route_description(route),
         savings_vs_cash |-> value_calc.savings_vs_cash,
         duration_hours |-> route.duration_hours,
         segments |-> route.segments,
         airline |-> route.airline,
         is_affordable |-> TRUE]

RECURSIVE flight_loop_no_budget(_, _)
flight_loop_no_budget(routes, available_miles) ==
    IF routes = <<>> THEN <<>>
    ELSE <<flight_option(Head(routes).route)>>
            \o flight_loop_no_budget(Tail(routes), available_miles)

\* The loop of get_flight_options over route_results['routes'].
RECURSIVE flight_loop(_, _)
flight_loop(routes, available_miles) ==
    IF routes = <<>> THEN <<>>
    ELSE LET route == Head(routes).route
             rest == flight_loop(Tail(routes), available_miles)
         IN  IF route.total_miles <= available_miles
             THEN <<flight_option(route)>> \o rest
             ELSE rest

\* RedemptionRecommender.get_flight_options, given the route results.
get_flight_options(route_results, available_miles) ==
    flight_loop(route_results.routes, available_miles)

hotel_option(data, destination) ==
    LET value_calc == calculate_hotel_value(data.points, FromInt(data.cash_value), RZero)
    IN  [type |-> "hotel", chain |-> data.chain, category |-> data.category,
         cost_points |-> data.points, cash_equivalent |-> data.cash_value,
         fees |-> 0, value_per_point |-> value_calc.value_per_point,
         location |-> destination,
         savings_vs_cash |-> value_calc.savings_vs_cash,
         is_affordable |-> TRUE]

get_hotel_options_no_budget(destination, available_points) ==
    LET hotel_options == [i \in 1..Len(hotel_data) |-> hotel_option(hotel_data[i], destination)]
        keys == [i \in 1..Len(hotel_options) |-> hotel_options[i].value_per_point]
    IN  FirstN(Permute(hotel_options, sort_reverse(keys)), 5)

\* RedemptionRecommender.get_hotel_options
get_hotel_options(destination, available_points) ==
    LET affordable == SelectSeq(hotel_data, LAMBDA data : data.points <= available_points)
        hotel_options == [i \in 1..Len(affordable) |-> hotel_option(affordable[i], destination)]
        keys == [i \in 1..Len(hotel_options) |-> hotel_options[i].value_per_point]
    IN  FirstN(Permute(hotel_options, sort_reverse(keys)), 5)

giftcard_option(data) ==
    LET value_calc == calculate_giftcard_value(data.points, FromInt(data.value))
    IN  [type |-> "giftcard", merchant |-> data.merchant,
         cost_points |-> data.points, cash_equivalent |-> data.value,
         fees |-> 0, value_per_point |-> value_calc.value_per_point,
         savings_vs_cash |-> value_calc.savings_vs_cash,
         is_affordable |-> TRUE]

statement_credit_option(data) ==
    LET points_required == 10000
        cash_value == RDiv(RMul(FromInt(points_required), data.value_per_point), FromInt(100))
    IN  [type |-> "statement_credit", program |-> data.program,
         cost_points |-> points_required, cash_equivalent |-> cash_value,
         fees |-> 0, value_per_point |-> data.value_per_point,
         savings_vs_cash |-> cash_value,
         is_affordable |-> TRUE]

\* RedemptionRecommender.get_alternative_redemptions
get_alternative_redemptions(available_points) ==
    LET cards == SelectSeq(gift_cards, LAMBDA data : data.points <= available_points)
        credits == IF 10000 <= available_points THEN statement_credits ELSE <<>>
    IN  [i \in 1..Len(cards) |-> giftcard_option(cards[i])]
            \o [i \in 1..Len(credits) |-> statement_credit_option(credits[i])]

LastElement(seq) == seq[Len(seq)]

\* The first element with the greatest key, as max(seq, key=...) returns it.
FirstMax(seq) ==
    LET best == CHOOSE i \in 1..Len(seq) :
                    /\ \A j \in 1..Len(seq) :
                            RLe(value_per_unit_of(seq[j]), value_per_unit_of(seq[i]))
                    /\ \A j \in 1..(i - 1) :
                            RLt(value_per_unit_of(seq[j]), value_per_unit_of(seq[i]))
    IN  seq[best]

RECURSIVE SumValuesOfTail(_)
SumValuesOfTail(seq) ==
    IF Len(seq) <= 1 THEN RZero
    ELSE RAdd(value_per_unit_of(seq[2]), SumValuesOfTail(Tail(seq)))

RECURSIVE SumValues(_)
SumValues(seq) ==
    IF seq = <<>> THEN RZero
    ELSE RAdd(value_per_unit_of(Head(seq)), SumValues(Tail(seq)))

filter_options_strict(all_options, user_preferences) ==
    SelectSeq(all_options,
        LAMBDA option : RGt(value_per_unit_of(option), user_preferences.min_value_per_mile))

\* The filtering step of generate_recommendations.
filter_options(all_options, user_preferences) ==
    SelectSeq(all_options,
        LAMBDA option : RGe(value_per_unit_of(option), user_preferences.min_value_per_mile))

order_options_fees_first(filtered_options, user_preferences) ==
    IF user_preferences.minimize_fees
    THEN Permute(filtered_options,
             sort_ascending([i \in 1..Len(filtered_options) |-> filtered_options[i].fees]))
    ELSE IF user_preferences.maximize_value
    THEN Permute(filtered_options,
             sort_reverse([i \in 1..Len(filtered_options) |->
                              value_per_unit_of(filtered_options[i])]))
    ELSE filtered_options

\* The ordering step of generate_recommendations.
order_options(filtered_options, user_preferences) ==
    IF user_preferences.maximize_value
    THEN Permute(filtered_options,
             sort_reverse([i \in 1..Len(filtered_options) |->
                              value_per_unit_of(filtered_options[i])]))
    ELSE IF user_preferences.minimize_fees
    THEN Permute(filtered_options,
             sort_ascending([i \in 1..Len(filtered_options) |-> filtered_options[i].fees]))
    ELSE filtered_options

\* RedemptionRecommender.generate_recommendations, given what search_flights
\* returns.  The result keeps, next to the returned dictionary (result), the
\* locals the properties speak of.
generate_recommendations(origin_airport, destination_airport, available_miles, user_preferences, flight_offers, responses) ==
    With(find_optimal_routes(origin_airport, destination_airport, flight_offers, responses),
         LAMBDA route_results :
    With(get_flight_options(route_results, available_miles), LAMBDA flight_options :
    With(get_hotel_options(destination_airport, available_miles), LAMBDA hotel_options :
    With(IF user_preferences.include_alternatives
         THEN get_alternative_redemptions(available_miles) ELSE <<>>,
         LAMBDA alternative_options :
    With(flight_options \o hotel_options \o alternative_options, LAMBDA all_options :
    With(order_options(filter_options(all_options, user_preferences), user_preferences),
         LAMBDA filtered_options :
    With(FirstN(filtered_options, 5), LAMBDA top_recommendations :
        [route_results |-> route_results,
         flight_options |-> flight_options,
         hotel_options |-> hotel_options,
         alternative_options |-> alternative_options,
         all_options |-> all_options,
         filtered_options |-> filtered_options,
         result |->
            [recommendations |-> top_recommendations,
             best_overall |-> IF top_recommendations # <<>>
                              THEN top_recommendations[1] ELSE None,
             best_value_per_mile |-> IF top_recommendations # <<>>
                                     THEN FirstMax(top_recommendations) ELSE None,
             summary |->
                [total_options_found |-> Len(all_options),
                 affordable_options |->
                    Len(SelectSeq(all_options, LAMBDA opt : opt.is_affordable)),
                 recommendations_generated |-> Len(top_recommendations),
                 average_value_per_mile |->
                    IF top_recommendations # <<>>
                    THEN RDiv(SumValues(top_recommendations),
                              FromInt(Len(top_recommendations)))
                    ELSE RZero],
             search_criteria |->
                [origin |-> origin_airport, destination |-> destination_airport,
                 available_miles |-> available_miles,
                 preferences |->
                    [maximize_value |-> user_preferences.maximize_value,
                     minimize_fees |-> user_preferences.minimize_fees,
                     include_alternatives |-> user_preferences.include_alternatives]]]])))))))

(***************************************************************************)
(* The calls of the recommender.  A request is answered by the flight-data *)
(* source with nothing, with the mock pair, or with live offers of which   *)
(* three are non-stop (one of them free); each default hub's two legs are  *)
(* answered with nothing or with the mock pair.                            *)
(***************************************************************************)
RecOrigins == {"JFK", "ZZZ"}

RecDestinations == {"LAX", "ORD"}

AvailableSamples == {3000, 10000, 25000, 37500, 100000}

MinValueSamples == {Rat(1, 2), FromInt(1), FromInt(2)}

PreferenceSamples ==
    { [maximize_value |-> mv, minimize_fees |-> mf, prefer_direct_flights |-> TRUE,
       max_layovers |-> 1, hotel_preference |-> "any",
       include_alternatives |-> ia, min_value_per_mile |-> mn] :
         mv \in BOOLEAN, mf \in BOOLEAN, ia \in BOOLEAN, mn \in MinValueSamples }

DirectAnswers(origin, destination) ==
    { <<>>,
      get_mock_flights(origin, destination),
      << LiveOffer(origin, destination,
             [price |-> FromInt(250), airline |-> "AA", duration |-> "PT3H"], 1),
         LiveOffer(origin, destination,
             [price |-> Rat(1999, 10), airline |-> "DL", duration |-> "PT2H30M"], 2),
         LiveOffer(origin, destination,
             [price |-> RZero, airline |-> "DL", duration |-> "PT5H"], 1),
         LiveOffer(origin, destination,
             [price |-> FromInt(900), airline |-> "UA", duration |-> "PT3H"], 1) >> }

HubAnswers(origin, destination) ==
    { LegAnswers(origin, destination, SubSeq(major_hubs, 1, 3),
                 [i \in 1..3 |-> <<kinds[i], kinds[i]>>]) :
        kinds \in [1..3 -> {"none", "mock"}] }

CallFindOptimalRoutes ==
    /\ op = "init"
    /\ \E o \in RecOrigins, d \in RecDestinations :
            \E flight_offers \in DirectAnswers(o, d), responses \in HubAnswers(o, d) :
                /\ op' = "find_optimal_routes"
                /\ args' = [origin |-> o, destination |-> d,
                            flight_offers |-> flight_offers, responses |-> responses]
                /\ ret' = find_optimal_routes(o, d, flight_offers, responses)
                /\ UNCHANGED <<prev_direct, prev_recommend>>

CallGenerateRecommendations ==
    /\ op = "init"
    /\ \E o \in RecOrigins, d \in RecDestinations, available_miles \in AvailableSamples,
          user_preferences \in PreferenceSamples :
            \E flight_offers \in DirectAnswers(o, d), responses \in HubAnswers(o, d) :
                /\ op' = "generate_recommendations"
                /\ args' = [origin |-> o, destination |-> d,
                            available_miles |-> available_miles,
                            user_preferences |-> user_preferences,
                            flight_offers |-> flight_offers, responses |-> responses]
                /\ ret' = generate_recommendations(o, d, available_miles, user_preferences,
                                                   flight_offers, responses)
                /\ UNCHANGED <<prev_direct, prev_recommend>>

(***************************************************************************)
(* recommender.py: the guidance for a balance that does not suffice.       *)
(***************************************************************************)
InsufficientAvailableSamples == {0, 5000, 10000, 15000, 25000}

RequiredSamples == {10000, 25000, 40000, 1234567}

\* The decimal digits of a natural number in groups of three, as the format
\* specifier "," writes them.
RECURSIVE GroupDigits(_)
GroupDigits(digits) ==
    IF Len(digits) <= 3 THEN digits
    ELSE GroupDigits(SubSeq(digits, 1, Len(digits) - 3))
            \o "," \o SubSeq(digits, Len(digits) - 2, Len(digits))

\* f'{n:,}'
FormatThousands(n) ==
    IF n < 0 THEN "-" \o GroupDigits(ToString(-n)) ELSE GroupDigits(ToString(n))

earn_more_suggestions ==
    << "Apply for a new credit card with sign-up bonus",
       "Use shopping portals for bonus miles",
       "Dine at partner restaurants",
       "Transfer points from other programs" >>

insufficient_scoped_to_required(available_miles, required_miles) ==
    LET miles_short == required_miles - available_miles
    IN  [type |-> "insufficient_miles",
         available_miles |-> available_miles,
         required_miles |-> required_miles,
         miles_short |-> miles_short,
         recommendations |->
            << [type |-> "earn_more_miles",
                description |-> "You need " \o FormatThousands(miles_short) \o " more miles",
                suggestions |-> earn_more_suggestions],
               [type |-> "alternative_redemption",
                description |-> "Consider alternative redemptions with your current miles",
                options |-> get_alternative_redemptions(required_miles)] >>]

\* RedemptionRecommender.get_insufficient_miles_recommendations
get_insufficient_miles_recommendations(available_miles, required_miles) ==
    LET miles_short == required_miles - available_miles
    IN  [type |-> "insufficient_miles",
         available_miles |-> available_miles,
         required_miles |-> required_miles,
         miles_short |-> miles_short,
         recommendations |->
            << [type |-> "earn_more_miles",
                description |-> "You need " \o FormatThousands(miles_short) \o " more miles",
                suggestions |-> earn_more_suggestions],
               [type |-> "alternative_redemption",
                description |-> "Consider alternative redemptions with your current miles",
                options |-> get_alternative_redemptions(available_miles)] >>]

CallGetInsufficientMilesRecommendations ==
    /\ op = "init"
    /\ \E available_miles \in InsufficientAvailableSamples, required_miles \in RequiredSamples :
            /\ op' = "get_insufficient_miles_recommendations"
            /\ args' = [available_miles |-> available_miles, required_miles |-> required_miles]
            /\ ret' = get_insufficient_miles_recommendations(available_miles, required_miles)
            /\ UNCHANGED <<prev_direct, prev_recommend>>

NextRecommend ==
    \/ Return
    \/ CallFindOptimalRoutes
    \/ CallGenerateRecommendations
    \/ CallGetInsufficientMilesRecommendations

SpecRecommend == InitState /\ [][NextRecommend]_vars

(***************************************************************************)
(* Properties of the recommender.                                          *)
(***************************************************************************)
IsRecommendCall == op = "generate_recommendations"

\* What an option costs in miles or points.
OptionCost(option) ==
    IF option.type = "flight" THEN option.cost_miles ELSE option.cost_points

OptionTypesIn(options) == {options[k].type : k \in 1..Len(options)}

\* C17: every option of the pool recommend builds, whatever its type, and
\* every recommendation it returns costs at most available_units.
C17_PoolWithinBudget ==
    IsRecommendCall =>
        /\ \A k \in 1..Len(ret.all_options) :
                OptionCost(ret.all_options[k]) <= args.available_miles
        /\ \A k \in 1..Len(ret.result.recommendations) :
                OptionCost(ret.result.recommendations[k]) <= args.available_miles

C17_Witness ==
    /\ IsRecommendCall
    /\ OptionTypesIn(ret.all_options) = {"flight", "hotel", "giftcard", "statement_credit"}
    /\ ret.route_results.routes # <<>>
    /\ Len(ret.flight_options) < Len(ret.route_results.routes)
    /\ \E k \in 1..Len(ret.all_options) :
            /\ ret.all_options[k].type = "flight"
            /\ OptionCost(ret.all_options[k]) = args.available_miles
    /\ ret.result.recommendations # <<>>

\* The routes the route constructor builds for the request, ranked.
RankedRoutes ==
    rank_routes_by_value(
        find_direct_routes(args.origin, args.destination, args.flight_offers)
            \o find_layover_routes(args.origin, args.destination, [is_none |-> TRUE],
                                   args.responses))

\* The flight options are, in order, the records of the routes at the given
\* positions of the ranking.
FlightOptionsMatch(positions) ==
    /\ Len(ret.flight_options) = Cardinality(positions)
    /\ \A k \in 1..Len(ret.flight_options) :
            LET option == ret.flight_options[k]
                route == RankedRoutes[KthOf(positions, k)].route
            IN  /\ option.type = "flight"
                /\ option.subtype = route.route_type
                /\ option.cost_miles = route.total_miles
                /\ option.fees = route.total_fees
                /\ option.segments = route.segments
                /\ option.airline = route.airline
                /\ option.duration_hours = route.duration_hours

\* C18 as stated: the flight part of the pool holds one option for each
\* constructed and ranked route whose total_units is within available_units,
\* and none for a route that costs more.
C18_OptionPerAffordableRoute ==
    IsRecommendCall =>
        FlightOptionsMatch({i \in 1..Len(RankedRoutes) :
                                RankedRoutes[i].route.total_miles <= args.available_miles})

\* C18: the flight part of the pool holds one option for each of the five
\* best ranked routes whose total_units is within available_units, none for
\* a route that costs more, and none for a route ranked sixth or later.
C18_OptionPerAffordableTopRoute ==
    IsRecommendCall =>
        FlightOptionsMatch({i \in 1..Len(RankedRoutes) :
                                /\ i <= 5
                                /\ RankedRoutes[i].route.total_miles <= args.available_miles})

C18_Witness ==
    /\ IsRecommendCall
    /\ Len(RankedRoutes) = 6
    /\ RankedRoutes[6].route.total_miles <= args.available_miles
    /\ Len(ret.flight_options) = 5
    /\ ret.flight_options[5].cost_miles = RankedRoutes[5].route.total_miles

\* The value per unit of an option record, whichever key holds it.
OptionValue(option) ==
    IF option.type = "flight" THEN option.value_per_mile ELSE option.value_per_point

\* value >= minimum, value = minimum, stated on integers.
AtLeastMin(option) ==
    LET v == OptionValue(option)
        m == args.user_preferences.min_value_per_mile
    IN  v.n * m.d >= m.n * v.d

EqualsMin(option) ==
    LET v == OptionValue(option)
        m == args.user_preferences.min_value_per_mile
    IN  v.n * m.d = m.n * v.d

SeqElems(seq) == {seq[k] : k \in 1..Len(seq)}

\* C19: no returned recommendation is worth less per unit than
\* min_value_per_unit, and the filter keeps every option of the pool worth
\* the minimum or more, an option worth exactly the minimum included.
C19_MinimumValueFilter ==
    IsRecommendCall =>
        /\ \A k \in 1..Len(ret.result.recommendations) :
                AtLeastMin(ret.result.recommendations[k])
        /\ \A k \in 1..Len(ret.filtered_options) : AtLeastMin(ret.filtered_options[k])
        /\ \A k \in 1..Len(ret.all_options) :
                AtLeastMin(ret.all_options[k]) =>
                    ret.all_options[k] \in SeqElems(ret.filtered_options)
        /\ Len(ret.filtered_options)
                = Cardinality({k \in 1..Len(ret.all_options) : AtLeastMin(ret.all_options[k])})

C19_Witness ==
    /\ IsRecommendCall
    /\ \E k \in 1..Len(ret.result.recommendations) : EqualsMin(ret.result.recommendations[k])
    /\ \E k \in 1..Len(ret.all_options) : ~AtLeastMin(ret.all_options[k])
    /\ \E k \in 1..Len(ret.result.recommendations) :
            ~EqualsMin(ret.result.recommendations[k])

\* The filtered pool in merge order.
FilteredInMergeOrder == SelectSeq(ret.all_options, AtLeastMin)

PoolPosition(option) == CHOOSE i \in 1..Len(ret.all_options) : ret.all_options[i] = option

MergeRank(option) ==
    CASE option.type = "flight" -> 1
      [] option.type = "hotel" -> 2
      [] OTHER -> 3

\* C20: the pool is merged as flights, hotels, alternatives, and the
\* filtered pool is put in non-increasing order of value per unit when
\* maximize_value is set (whether or not minimize_fees is set too), in
\* non-decreasing order of fees when only minimize_fees is set, and left in
\* merge order when neither is set; options with equal keys keep their merge
\* order.
C20_Ordering ==
    IsRecommendCall =>
        LET pool == ret.all_options
            out == ret.filtered_options
            prefs == args.user_preferences
        IN  /\ \A i \in 1..Len(pool), j \in 1..Len(pool) :
                    (i < j => MergeRank(pool[i]) <= MergeRank(pool[j]))
                    /\ (i # j => pool[i] # pool[j])
            /\ Len(out) = Len(FilteredInMergeOrder)
            /\ SeqElems(out) = SeqElems(FilteredInMergeOrder)
            /\ \A k \in 1..Len(out), l \in 1..Len(out) :
                    k < l =>
                        IF prefs.maximize_value
                        THEN /\ RGe(OptionValue(out[k]), OptionValue(out[l]))
                             /\ OptionValue(out[k]) = OptionValue(out[l]) =>
                                    PoolPosition(out[k]) < PoolPosition(out[l])
                        ELSE IF prefs.minimize_fees
                        THEN /\ out[k].fees <= out[l].fees
                             /\ out[k].fees = out[l].fees =>
                                    PoolPosition(out[k]) < PoolPosition(out[l])
                        ELSE PoolPosition(out[k]) < PoolPosition(out[l])

C20_Witness ==
    /\ IsRecommendCall
    /\ args.user_preferences.maximize_value
    /\ args.user_preferences.minimize_fees
    /\ ret.filtered_options # FilteredInMergeOrder
    /\ \E k \in 1..Len(ret.filtered_options), l \in 1..Len(ret.filtered_options) :
            /\ k < l
            /\ ret.filtered_options[k].fees > ret.filtered_options[l].fees
            /\ RGt(OptionValue(ret.filtered_options[k]), OptionValue(ret.filtered_options[l]))
    /\ \E k \in 1..Len(ret.filtered_options), l \in 1..Len(ret.filtered_options) :
            /\ k < l
            /\ OptionValue(ret.filtered_options[k]) = OptionValue(ret.filtered_options[l])

\* The greatest value per unit among the options of a list.
IsMaxValueOf(option, options) ==
    /\ option \in SeqElems(options)
    /\ \A k \in 1..Len(options) : RGe(OptionValue(option), OptionValue(options[k]))

\* C21: the recommendation list is the first min(5, n) options of the
\* ordered filtered pool; best_overall is its first element and
\* best_value_per_unit is an element of the list whose value per unit is the
\* greatest of the list; both are none exactly when the list is empty.
C21_TopFiveAndBest ==
    IsRecommendCall =>
        LET list == ret.result.recommendations
            n == Len(ret.filtered_options)
        IN  /\ Len(list) = IF n < 5 THEN n ELSE 5
            /\ \A k \in 1..Len(list) : list[k] = ret.filtered_options[k]
            /\ IF list = <<>>
               THEN /\ ret.result.best_overall = None
                    /\ ret.result.best_value_per_mile = None
               ELSE /\ ret.result.best_overall = list[1]
                    /\ ret.result.best_overall # None
                    /\ ret.result.best_value_per_mile # None
                    /\ IsMaxValueOf(ret.result.best_value_per_mile, list)

C21_Witness ==
    /\ IsRecommendCall
    /\ Len(ret.filtered_options) > 5
    /\ Len(ret.result.recommendations) = 5
    /\ ret.result.best_value_per_mile \in SeqElems(ret.result.recommendations)
    /\ \E k \in 6..Len(ret.filtered_options) :
            RGt(OptionValue(ret.filtered_options[k]),
                OptionValue(ret.result.best_value_per_mile))

\* The sum of the values per unit of a list of options.
RECURSIVE TotalValue(_)
TotalValue(options) ==
    IF options = <<>> THEN RZero
    ELSE RAdd(OptionValue(Head(options)), TotalValue(Tail(options)))

\* C22: total_options_found is the size of the merged pool before the
\* minimum-value filter, affordable_options the number of pool options
\* flagged affordable, recommendations_generated the length of the returned
\* list (at most 5 and at most total_options_found), and the average value
\* the arithmetic mean of the returned list's values per unit, 0 when the
\* list is empty.
C22_SummaryCounters ==
    IsRecommendCall =>
        LET summary == ret.result.summary
            list == ret.result.recommendations
            pool == ret.flight_options \o ret.hotel_options \o ret.alternative_options
            total == TotalValue(list)
        IN  /\ summary.total_options_found = Len(pool)
            /\ summary.affordable_options
                    = Cardinality({k \in 1..Len(pool) : pool[k].is_affordable})
            /\ summary.recommendations_generated = Len(list)
            /\ summary.recommendations_generated <= 5
            /\ summary.recommendations_generated <= summary.total_options_found
            /\ IF list = <<>>
               THEN summary.average_value_per_mile = RZero
               ELSE /\ summary.average_value_per_mile.d > 0
                    /\ RMul(summary.average_value_per_mile, FromInt(Len(list))) = total

C22_Witness ==
    /\ IsRecommendCall
    /\ ret.result.summary.total_options_found > Len(ret.filtered_options)
    /\ ret.result.summary.recommendations_generated = 5
    /\ \E k \in 2..5 :
            OptionValue(ret.result.recommendations[k])
                # OptionValue(ret.result.recommendations[1])
    /\ RGt(ret.result.summary.average_value_per_mile, FromInt(1))

\* Every route constructed for the request, every hotel table entry and
\* every alternative costs more than available_units.
NothingAffordable ==
    /\ \A k \in 1..Len(RankedRoutes) :
            RankedRoutes[k].route.total_miles > args.available_miles
    /\ \A k \in 1..Len(hotel_data) : hotel_data[k].points > args.available_miles
    /\ \A k \in 1..Len(gift_cards) : gift_cards[k].points > args.available_miles
    /\ 10000 > args.available_miles

\* C23: when every option of the catalog costs more than available_units,
\* recommend returns an empty recommendation list, no best_overall, no
\* best_value_per_unit and an average value of 0.
C23_EmptyWhenNothingAffordable ==
    (IsRecommendCall /\ NothingAffordable) =>
        /\ ret.result.recommendations = <<>>
        /\ ret.result.best_overall = None
        /\ ret.result.best_value_per_mile = None
        /\ ret.result.summary.average_value_per_mile = RZero
        /\ ret.result.summary.recommendations_generated = 0

C23_Witness ==
    /\ IsRecommendCall
    /\ NothingAffordable
    /\ Len(RankedRoutes) > 0
    /\ args.user_preferences.include_alternatives
    /\ ret.result.recommendations = <<>>

\* C24: insufficient(available, required) returns miles_short = required -
\* available, the fixed list of four earn-more suggestions, and the
\* alternatives generated for the available units (the five gift cards and
\* the two statement credits when 10000 units are available, none
\* otherwise), every one of which costs at most the available units.
C24_InsufficientGuidance ==
    op = "get_insufficient_miles_recommendations" =>
        LET options == ret.recommendations[2].options
        IN  /\ ret.miles_short + args.available_miles = args.required_miles
            /\ Len(ret.recommendations) = 2
            /\ ret.recommendations[1].suggestions
                    = << "Apply for a new credit card with sign-up bonus",
                         "Use shopping portals for bonus miles",
                         "Dine at partner restaurants",
                         "Transfer points from other programs" >>
            /\ \A k \in 1..Len(options) : options[k].cost_points <= args.available_miles
            /\ Len(options) = IF args.available_miles >= 10000 THEN 7 ELSE 0
            /\ \A k \in 1..Len(options) :
                    options[k].type = IF k <= 5 THEN "giftcard" ELSE "statement_credit"

C24_Witness ==
    /\ op = "get_insufficient_miles_recommendations"
    /\ args.available_miles = 15000
    /\ args.required_miles = 25000
    /\ ret.miles_short = 10000
    /\ ret.recommendations[1].description = "You need 10,000 more miles"
    /\ Len(ret.recommendations[2].options) = 7

(***************************************************************************)
(* Repeated recommendations against the mock data source.  With no client  *)
(* configured every search is answered by _get_mock_flights, which         *)
(* computes its two offers from the request alone.                         *)
(***************************************************************************)
RepeatRequests ==
    { [origin |-> o, destination |-> d, available_miles |-> available_miles,
       user_preferences |-> user_preferences] :
         o \in RecOrigins, d \in RecDestinations, available_miles \in {10000, 100000},
         user_preferences \in {p \in PreferenceSamples : p.min_value_per_mile = Rat(1, 2)} }

\* A mock source whose fares change from one call to the next.
MockSourceJittered(origin, destination) ==
    LET hubs == SubSeq(major_hubs, 1, 3)
        answers == [flight_offers |-> get_mock_flights(origin, destination),
                    responses |-> LegAnswers(origin, destination, hubs,
                                             [i \in 1..3 |-> <<"mock", "mock">>])]
    IN  { answers,
          [answers EXCEPT !.flight_offers[1].price = RAdd(@, FromInt(10))] }

\* What the searches of one recommendation get from the mock source: the
\* direct search and the two legs through each default hub.
MockSource(origin, destination) ==
    LET hubs == SubSeq(major_hubs, 1, 3)
    IN  { [flight_offers |-> get_mock_flights(origin, destination),
           responses |-> LegAnswers(origin, destination, hubs,
                                    [i \in 1..3 |-> <<"mock", "mock">>])] }

CallGenerateRecommendationsOnMock ==
    /\ op = "init"
    /\ \E request \in RepeatRequests :
            \E source \in MockSource(request.origin, request.destination) :
                /\ op' = "generate_recommendations_on_mock"
                /\ args' = [request |-> request, source |-> source]
                /\ ret' = generate_recommendations(request.origin, request.destination,
                              request.available_miles, request.user_preferences,
                              source.flight_offers, source.responses)
                /\ UNCHANGED <<prev_direct, prev_recommend>>

NextRepeat ==
    \/ Return
    \/ CallGenerateRecommendationsOnMock

SpecRepeat == InitState /\ [][NextRepeat]_vars

\* The call repeats the request of the recommendation made before it.
RepeatsLastRequest ==
    /\ op = "generate_recommendations_on_mock"
    /\ "request" \in DOMAIN prev_recommend
    /\ prev_recommend.request = args.request

DurationTexts ==
    {"PT3H", "PT2H30M", "PT12H", "3H", "PTH", "PTxH", "P1DT2H", "PT45M", "", "PT-3H"}

DurationSamples ==
    {[is_none |-> TRUE]} \cup {[is_none |-> FALSE, text |-> t] : t \in DurationTexts}

\* RouteOptimizer._parse_duration on whatever the offer carries: None has no
\* startswith, and the bare except turns the AttributeError into the default.
parse_duration_field(duration) ==
    IF duration.is_none THEN 5 ELSE parse_duration(duration.text)

\* A one-segment live offer carrying the given duration text.
OfferLasting(origin, destination, text) ==
    LiveOffer(origin, destination,
              [price |-> FromInt(100), airline |-> "AA", duration |-> text], 1)

CallParseDuration ==
    /\ op = "init"
    /\ \E duration \in DurationSamples :
            /\ op' = "parse_duration"
            /\ args' = [duration_str |-> duration]
            /\ ret' = parse_duration_field(duration)
            /\ UNCHANGED <<prev_direct, prev_recommend>>

CallFindDirectRoutesLasting ==
    /\ op = "init"
    /\ \E o \in RouteAirports, d \in RouteAirports, text \in DurationTexts :
            LET offers == <<OfferLasting(o, d, text)>>
            IN  /\ op' = "find_direct_routes"
                /\ args' = [origin |-> o, destination |-> d, flight_offers |-> offers]
                /\ ret' = find_direct_routes(o, d, offers)
                /\ UNCHANGED <<prev_direct, prev_recommend>>

CallFindLayoverRoutesLasting ==
    /\ op = "init"
    /\ \E o \in RouteAirports, d \in RouteAirports :
            \E text1 \in DurationTexts, text2 \in DurationTexts :
                LET hub_arg == [is_none |-> FALSE, list |-> <<"ORD">>]
                    responses == <<[leg1 |-> <<OfferLasting(o, "ORD", text1)>>,
                                    leg2 |-> <<OfferLasting("ORD", d, text2)>>]>>
                IN  /\ op' = "find_layover_routes"
                    /\ args' = [origin |-> o, destination |-> d,
                                hub_airports |-> hub_arg, responses |-> responses]
                    /\ ret' = find_layover_routes(o, d, hub_arg, responses)
                    /\ UNCHANGED <<prev_direct, prev_recommend>>

NextDuration ==
    \/ Return
    \/ CallParseDuration
    \/ CallFindDirectRoutesLasting
    \/ CallFindLayoverRoutesLasting

SpecDuration == InitState /\ [][NextDuration]_vars

\* The duration has the form PT<n>H...: PT, one or more digits, H.
HoursPart(text) == BeforeFirst(SubSeq(text, 3, Len(text)), "H")

IsHoursForm(text) ==
    /\ StartsWith(text, "PT")
    /\ Contains(text, "H")
    /\ Len(HoursPart(text)) > 0
    /\ \A i \in 1..Len(HoursPart(text)) : CharAt(HoursPart(text), i) \in Digits

\* C26: duration parsing never raises; a duration of the form PT<n>H... gives
\* n hours and every other duration, a missing one included, gives the
\* default of 5 hours; so the direct and the layover search complete on any
\* duration data and every route they build has duration_hours >= 0.
C26_DurationParsing ==
    /\ op = "parse_duration" =>
            /\ ret >= 0
            /\ (~args.duration_str.is_none /\ IsHoursForm(args.duration_str.text)) =>
                    ret = DigitsValue(HoursPart(args.duration_str.text), 0)
            /\ (args.duration_str.is_none \/ ~IsHoursForm(args.duration_str.text)) =>
                    ret = 5
    /\ (op \in {"find_direct_routes", "find_layover_routes"}) =>
            \A k \in 1..Len(ret) : ret[k].duration_hours >= 0

\* The part of C26 the code does keep: nothing is raised, the hours of a
\* PT<n>H... duration are returned, and a missing duration or an hour part
\* that is no integer gives 5.
C26_NeverRaisesAndDefaults ==
    op = "parse_duration" =>
        /\ ret \in Int
        /\ (~args.duration_str.is_none /\ IsHoursForm(args.duration_str.text)) =>
                ret = DigitsValue(HoursPart(args.duration_str.text), 0)
        /\ args.duration_str.is_none => ret = 5
        /\ (~args.duration_str.is_none /\ args.duration_str.text \in {"PTH", "PTxH", "P1DT2H"}) =>
                ret = 5

\* A route built from an offer whose hour part is a negative integer.
C26_NegativeDuration ==
    /\ op \in {"find_direct_routes", "find_layover_routes"}
    /\ \E k \in 1..Len(ret) : ret[k].duration_hours < 0


\* C27: find_optimal_routes returns, for every search, a result carrying
\* routes, best_route, savings_opportunities, total_routes_found,
\* direct_routes_count and layover_routes_count, also when the data source
\* yields no direct and no layover route.
C27_CountsAlwaysPresent ==
    op = "find_optimal_routes" =>
        {"routes", "best_route", "savings_opportunities", "total_routes_found",
         "direct_routes_count", "layover_routes_count"} \subseteq DOMAIN ret

\* The three counts are there whenever a route was found, and they add up.
C27_CountsPresentWhenRoutesFound ==
    (op = "find_optimal_routes" /\ ret.routes # <<>>) =>
        /\ {"total_routes_found", "direct_routes_count", "layover_routes_count"}
                \subseteq DOMAIN ret
        /\ ret.total_routes_found = ret.direct_routes_count + ret.layover_routes_count

\* A search that found nothing: the result has a message and no counts.
C27_NoRoutesResult ==
    /\ op = "find_optimal_routes"
    /\ ret.routes = <<>>
    /\ DOMAIN ret = {"routes", "best_route", "savings_opportunities", "message"}


\* C28: for every entry of compare_redemptions' output, the reported
\* value_per_unit equals the value per unit the entry's own RedemptionOption
\* derives, (cash_equivalent - taxes_fees) / miles_cost * 100 or 0 when
\* miles_cost <= 0, for every option type, gift cards with taxes_fees included.
C28_ReportedValueIsOwnValue ==
    op = "compare_redemptions" =>
        \A k \in 1..Len(ret) : ret[k].value_per_unit = value_per_mile(args[ret[k].option])

\* The same for flights and hotels, and for gift cards without taxes_fees.
C28_ReportedValueIsOwnValueNoGiftcardFees ==
    op = "compare_redemptions" =>
        \A k \in 1..Len(ret) :
            (args[ret[k].option].type # "giftcard" \/ args[ret[k].option].taxes_fees = RZero) =>
                ret[k].value_per_unit = value_per_mile(args[ret[k].option])

\* A gift card with taxes_fees whose reported value is above its own.
C28_GiftcardFeesIgnored ==
    /\ op = "compare_redemptions"
    /\ \E k \in 1..Len(ret) :
            /\ args[ret[k].option].type = "giftcard"
            /\ args[ret[k].option].taxes_fees # RZero
            /\ RGt(ret[k].value_per_unit, value_per_mile(args[ret[k].option]))


\* C29: each leg of a layover route is priced from the domestic zone table
\* whatever its distance, also a leg longer than 2000 miles, so a leg costs at
\* most 35000 and the route's total_miles is the sum of the two domestic
\* prices, at most 70000.
C29_LegsPricedDomestic ==
    op = "find_layover_routes" =>
        \A k \in 1..Len(ret) :
            LET hub == ret[k].layover_airports[1]
                leg1 == zone_of_distance(calculate_distance(args.origin, hub), FALSE)
                leg2 == zone_of_distance(calculate_distance(hub, args.destination), FALSE)
            IN  /\ leg1 \in {7500, 12500, 20000, 25000, 35000}
                /\ leg2 \in {7500, 12500, 20000, 25000, 35000}
                /\ ret[k].total_miles = leg1 + leg2
                /\ ret[k].total_miles <= 70000

\* A layover whose first leg is longer than 2000 miles, priced 35000 + 12500.
C29_Witness ==
    /\ op = "find_layover_routes"
    /\ \E k \in 1..Len(ret) :
            /\ calculate_distance(args.origin, ret[k].layover_airports[1]) > 2000
            /\ calculate_distance(ret[k].layover_airports[1], args.destination) = 1000
            /\ ret[k].total_miles = 47500


\* The award prices of the two charts, and a route of the given price, fees
\* and number of segments as the ranker sees it.
DomesticPrices == {award_charts.domestic[z] : z \in DOMAIN award_charts.domestic}

ChartPrices ==
    DomesticPrices \cup {award_charts.international[z] : z \in DOMAIN award_charts.international}

PricedRoute(total_miles, total_fees, nsegs) ==
    [total_miles |-> total_miles, total_fees |-> total_fees,
     segments |-> [s \in 1..nsegs |-> s], duration_hours |-> 3]

\* Every zero-stop offer has exactly one segment and every leg offer at least
\* one.
SegmentsAsParsed ==
    /\ \A k \in 1..Len(args.flight_offers) :
            args.flight_offers[k].stops = 0 => Len(args.flight_offers[k].segments) = 1
    /\ \A h \in 1..Len(args.responses) :
            /\ \A k \in 1..Len(args.responses[h].leg1) :
                    Len(args.responses[h].leg1[k].segments) >= 1
            /\ \A k \in 1..Len(args.responses[h].leg2) :
                    Len(args.responses[h].leg2[k].segments) >= 1

DirectPositions == {i \in 1..Len(RankedRoutes) : RankedRoutes[i].route.route_type = "direct"}

LayoverPositions == {i \in 1..Len(RankedRoutes) : RankedRoutes[i].route.route_type = "layover"}

====
